---- MODULE Spec2Model ----
(***************************************************************************)
(* Conversation workflow engine of the chat-bot backend: the graph nodes   *)
(* (app/graph/nodes.py), the two graph topologies (app/graph/builder.py),  *)
(* the LLM retry wrapper (app/services/llm.py), the API tools service      *)
(* (app/services/api_tools.py), the webhook dispatcher                     *)
(* (app/services/webhook.py), the HTTP handlers (app/api/routes.py), the    *)
(* history service (app/services/history.py), the request tracker          *)
(* (app/utils/tracking.py) and the remove-admin handler                    *)
(* (app/admin/routes.py).                                                  *)
(***************************************************************************)
EXTENDS Integers, Sequences, FiniteSets, TLC

VARIABLES
    variant,          \* which compiled graph runs: "minimal" or "enhanced"
    pc,               \* node the run executes next, "END" or "RAISED"
    trace,            \* nodes executed so far in this run, in order
    state,            \* the GraphState threaded through the nodes
    llm_calls,        \* number of llm.agenerate invocations in this run
    api_requests,     \* number of session.request calls in this run
    llm_used,         \* the LLM backend generate ran against in this run
    generated,        \* the response text generate produced in this run
    initial,          \* the state the run was started with
    webhook_requests, \* routes.webhook_requests: track id -> status entry
    tasks,            \* background tasks queued by webhook_chat
    acked,            \* track ids for which an acknowledgement was returned
    query,            \* reply of the get_webhook_status just answered: its HTTP status, the
                      \* track id and status of its body, and whether the
                      \* queried id had been acknowledged
    chats,            \* the synchronous chat requests served, with their replies
    now,              \* datetime.utcnow(), a logical clock
    api_session,      \* APIToolsService.session: "None" or "open"
    api_last,         \* the last make_request call: request, transport, result
    text_in,          \* a text handed to the directive functions of api_tools.py
    parse_out,        \* what parse_api_request_from_text and should_make_api_call
                      \* returned for it
    chat_sessions,    \* ids of the rows of table chat_sessions
    chat_messages,    \* rows of table chat_messages, in insertion order
    hist_out,         \* the HistoryService.load_conversation_history call just made
    hist_node,        \* the load_history node call just made
    save_runs,        \* the runs that reach save_history concurrently: the
                      \* state each holds and whether its node has returned
    send,             \* a send_webhook_response call: its payload, the POSTs made
                      \* and its result
    tracker,          \* RequestTracker._requests: track id -> entry
    tracker_out,      \* the RequestTracker.cleanup_old_requests call just made
    tracker_call,     \* the RequestTracker.update_request or get_request call
                      \* just made
    tracker_lock,     \* RequestTracker._lock: the coroutine holding it, or None
    coroutines,       \* the coroutines calling the tracker concurrently: the
                      \* call each makes and the statement it is at
    users,            \* table users: user id -> "admin", "user", or "none"
                      \* when there is no such row
    admin_requests    \* the remove-admin requests in flight: the statement
                      \* each is at and what it has read

vars == <<variant, pc, trace, state, llm_calls, api_requests, llm_used, generated, initial,
          webhook_requests, tasks, acked, query, chats, now,
          api_session, api_last, text_in, parse_out,
          chat_sessions, chat_messages, hist_out, hist_node, save_runs, send,
          tracker, tracker_out, tracker_call, tracker_lock, coroutines,
          users, admin_requests>>

graphVars == <<variant, pc, trace, state, llm_calls, api_requests, llm_used, generated, initial>>
routeVars == <<webhook_requests, tasks, acked, query, chats, now>>
apiVars   == <<api_session, api_last>>
parseVars == <<text_in, parse_out>>
\* the variables of the services exercised on their own
histVars  == <<chat_sessions, chat_messages, hist_out, hist_node, save_runs>>
trackVars == <<tracker, tracker_out, tracker_call, tracker_lock, coroutines>>
adminVars == <<users, admin_requests>>
auxVars   == <<parseVars, histVars, send, trackVars, adminVars>>

-----------------------------------------------------------------------------
(* Bounds of the model *)

\* the LLM stub raises on its first k invocations, k in 0..MaxLlmFailures
MaxLlmFailures == 4
\* number of webhook requests accepted in one behaviour
MaxRequests == 2
\* number of synchronous chat requests in one behaviour
MaxChats == 2
\* number of rows of table chat_messages
MaxMessages == 2
\* largest value of the logical clock
MaxClock == 1
\* settings.WEBHOOK_RETRY_ATTEMPTS: read by webhook.py, set by the deployment
WEBHOOK_RETRY_ATTEMPTS == 3

-----------------------------------------------------------------------------
(* Values *)

\* Python None where a string is expected
NoneVal == "<None>"

HumanMessage(c)  == [type |-> "human",  content |-> c]
AIMessage(c)     == [type |-> "ai",     content |-> c]
SystemMessage(c) == [type |-> "system", content |-> c]

\* API response dict stored in the state; keys is the set of keys it holds
NoApiResponse ==
    [keys |-> {}, status_code |-> 0, data |-> NoneVal, text |-> NoneVal,
     error |-> NoneVal, success |-> FALSE]

\* GraphState is a TypedDict(total=False): keys is the set of keys the dict
\* holds, and a field whose key is missing keeps the placeholder below.
\* A dict of strings (metadata) is a set of <<key, value>> pairs.
GraphState(keys, messages, metadata, session_id) ==
    [keys            |-> keys,
     messages        |-> messages,
     response        |-> NoneVal,
     metadata        |-> metadata,
     session_id      |-> session_id,
     history         |-> <<>>,
     api_request     |-> NoneVal,
     api_response    |-> NoApiResponse,
     should_call_api |-> FALSE]

\* state.get(key, default)
Get(st, key, default) == IF key \in st.keys THEN st[key] ELSE default

\* {**state, key: value} and state[key] = value
Set(st, key, value) == [st EXCEPT ![key] = value, !.keys = @ \cup {key}]

\* {**a, **b} on dicts of strings
Merge(a, b) == {p \in a : \A q \in b : q[1] # p[1]} \cup b

\* truthiness of an Optional[str]
TruthyStr(s) == s \notin {NoneVal, ""}

\* "needle in text" on Python strings
Contains(text, needle) ==
    \E i \in 1..(Len(text) - Len(needle) + 1) :
        SubSeq(text, i, i + Len(needle) - 1) = needle

\* str.find: index (1-based) of the first occurrence, 0 when there is none
Find(text, needle) ==
    IF Contains(text, needle)
    THEN CHOOSE i \in 1..(Len(text) - Len(needle) + 1) :
            /\ SubSeq(text, i, i + Len(needle) - 1) = needle
            /\ \A j \in 1..(i - 1) : SubSeq(text, j, j + Len(needle) - 1) # needle
    ELSE 0

CharAt(text, i) == SubSeq(text, i, i)

IsSpace(c) == c \in {" ", "\n", "\t", "\r"}

\* str.strip()
Strip(text) ==
    LET idx   == {i \in 1..Len(text) : ~IsSpace(CharAt(text, i))}
        first == CHOOSE i \in idx : \A j \in idx : i <= j
        last  == CHOOSE i \in idx : \A j \in idx : j <= i
    IN IF idx = {} THEN "" ELSE SubSeq(text, first, last)

-----------------------------------------------------------------------------
(* app/services/api_tools.py *)

HttpMethod == {"GET", "POST", "PUT", "DELETE", "PATCH"}

API_CALL == "API_CALL:"

\* a marker test that ignores case
should_make_api_call_AnyCase(text) ==
    Contains(text, API_CALL) \/ Contains(text, "api_call:")

\* should_make_api_call(text)
should_make_api_call(text) == Contains(text, API_CALL)

\* The brace scan of parse_api_request_from_text: the number of characters
\* of json_part up to and including the '}' that brings brace_count back to
\* zero, or -1 when no '}' does.
RECURSIVE BraceScan(_, _, _)
BraceScan(json_part, i, brace_count) ==
    IF i > Len(json_part) THEN -1
    ELSE IF CharAt(json_part, i) = "{"
         THEN BraceScan(json_part, i + 1, brace_count + 1)
    ELSE IF CharAt(json_part, i) = "}"
         THEN IF brace_count - 1 = 0 THEN i
              ELSE BraceScan(json_part, i + 1, brace_count - 1)
    ELSE BraceScan(json_part, i + 1, brace_count)

\* json.loads on the JSON documents of the model: the documents below are
\* objects, every other string raises JSONDecodeError.
DocUrl       == "{\"url\":\"http://a\"}"
DocNested    == "{\"url\":\"http://a\",\"params\":{\"q\":\"1\"}}"
DocPost      == "{\"url\":\"https://b\",\"method\":\"POST\",\"data\":{\"k\":\"v\"}}"
DocBadUrl    == "{\"url\":\"nope\"}"
DocBadMethod == "{\"url\":\"http://a\",\"method\":\"FETCH\"}"
DocNoUrl     == "{}"
DocBraceInString == "{\"url\":\"http://a?x=}{\"}"

JsonObjects ==
    {DocUrl, DocNested, DocPost, DocBadUrl, DocBadMethod, DocNoUrl, DocBraceInString}

json_loads(json_str) ==
    IF json_str \notin JsonObjects
    THEN [raised |-> TRUE, url |-> NoneVal, method |-> NoneVal, params |-> FALSE, data |-> FALSE]
    ELSE [raised |-> FALSE,
          url    |-> CASE json_str \in {DocUrl, DocNested, DocBadMethod} -> "http://a"
                       [] json_str = DocPost   -> "https://b"
                       [] json_str = DocBadUrl -> "nope"
                       [] json_str = DocBraceInString -> "http://a?x=}{"
                       [] OTHER                -> NoneVal,
          method |-> CASE json_str = DocPost      -> "POST"
                       [] json_str = DocBadMethod -> "FETCH"
                       [] OTHER                   -> NoneVal,
          params |-> json_str = DocNested,
          data   |-> json_str = DocPost]

StartsWith(text, prefix) ==
    Len(text) >= Len(prefix) /\ SubSeq(text, 1, Len(prefix)) = prefix

\* pydantic HttpUrl: an absolute http(s) URL with a host
IsHttpUrl(u) ==
    \/ StartsWith(u, "http://")  /\ Len(u) > Len("http://")
    \/ StartsWith(u, "https://") /\ Len(u) > Len("https://")

\* APIRequest(**api_data): the validated request, or None on ValidationError
APIRequest(api_data) ==
    LET method == IF api_data.method = NoneVal THEN "GET" ELSE api_data.method
    IN IF api_data.url # NoneVal /\ IsHttpUrl(api_data.url) /\ method \in HttpMethod
       THEN [ok |-> TRUE, url |-> api_data.url, method |-> method,
             params |-> api_data.params, data |-> api_data.data, timeout |-> 30]
       ELSE [ok |-> FALSE, url |-> NoneVal, method |-> NoneVal,
             params |-> FALSE, data |-> FALSE, timeout |-> 30]

NoRequest == APIRequest(json_loads(""))

\* The substring parse_api_request_from_text hands to json.loads: NoneVal
\* when the text is None, holds no marker or its braces never balance.
DirectiveOf(text) ==
    IF text = NoneVal THEN NoneVal
    ELSE IF ~Contains(text, API_CALL) THEN NoneVal
    ELSE LET start_idx == Find(text, API_CALL) + Len(API_CALL)
             json_part == Strip(SubSeq(text, start_idx, Len(text)))
             json_end  == BraceScan(json_part, 1, 0)
         IN IF json_end = -1 THEN NoneVal ELSE SubSeq(json_part, 1, json_end)

\* parse_api_request_from_text(text): ok is FALSE for a None result
parse_api_request_from_text(text) ==
    LET json_str == DirectiveOf(text)
        api_data == json_loads(json_str)
    IN IF json_str = NoneVal THEN NoRequest
       ELSE IF api_data.raised THEN NoRequest
       ELSE APIRequest(api_data)

\* no text has been handed to the directive functions
NoParse ==
    [parsed |-> FALSE, directive |-> NoneVal, ok |-> FALSE,
     checked |-> FALSE, should |-> FALSE]

IdleParse ==
    /\ text_in = ""
    /\ parse_out = NoParse

\* What the transport does with one session.request call: an HTTP response
\* (status line and body), an aiohttp.ClientError (connection refused, DNS
\* failure, TLS error) or another exception (asyncio.TimeoutError).
\* A body is its text, what response.json() makes of it and the repr of
\* that value: "object" parses to a non-empty dict, "empty_object" to {},
\* "array" to a list, and "text" raises ContentTypeError/JSONDecodeError.
Bodies ==
    { [kind |-> "object",       text |-> "{\"a\": 1}", repr |-> "{'a': 1}"],
      [kind |-> "empty_object", text |-> "{}",         repr |-> "{}"],
      [kind |-> "array",        text |-> "[1]",        repr |-> "[1]"],
      [kind |-> "text",         text |-> "ok",         repr |-> NoneVal] }

NoBody == [kind |-> "none", text |-> NoneVal, repr |-> NoneVal]

Statuses == {199, 200, 204, 299, 300, 404, 500}

Reason(status) ==
    CASE status \in {199}      -> "Info"
      [] status \in {200, 299} -> "OK"
      [] status = 204          -> "No Content"
      [] status = 300          -> "Multiple Choices"
      [] status = 404          -> "Not Found"
      [] OTHER                 -> "Internal Server Error"

TransportOutcomes ==
    { [kind |-> "response", status |-> s, body |-> b, msg |-> NoneVal] :
          s \in Statuses, b \in Bodies }
    \cup { [kind |-> "client_error", status |-> 0, body |-> NoBody,
            msg |-> "Cannot connect to host"],
           [kind |-> "timeout", status |-> 0, body |-> NoBody, msg |-> ""] }

ToStr(n) ==
    CASE n = 199 -> "199" [] n = 200 -> "200" [] n = 204 -> "204"
      [] n = 299 -> "299" [] n = 300 -> "300" [] n = 404 -> "404"
      [] n = 500 -> "500" [] OTHER -> "0"

APIResponse(status_code, data, text, error, success) ==
    [status_code |-> status_code, data |-> data, text |-> text,
     error |-> error, success |-> success]

\* a success test whose upper bound is inclusive
IsSuccessStatus_Inclusive(status) == 200 <= status /\ status <= 300

\* success=200 <= response.status < 300
IsSuccessStatus(status) == 200 <= status /\ status < 300

\* a make_request whose only handler is "except aiohttp.ClientError"
make_request_NoGenericExcept(request, env) ==
    IF env.kind = "client_error"
    THEN [raised |-> FALSE,
          response |-> APIResponse(0, NoneVal, NoneVal, "Client error: " \o env.msg, FALSE)]
    ELSE IF env.kind = "response" /\ env.body.kind # "array"
    THEN [raised |-> FALSE,
          response |-> APIResponse(env.status,
              IF env.body.kind = "text" THEN NoneVal ELSE env.body.repr,
              env.body.text,
              IF 200 <= env.status /\ env.status < 300 THEN NoneVal
              ELSE "HTTP " \o ToStr(env.status) \o ": " \o Reason(env.status),
              200 <= env.status /\ env.status < 300)]
    ELSE [raised |-> TRUE,
          response |-> APIResponse(0, NoneVal, NoneVal, NoneVal, FALSE)]

\* APIToolsService.make_request(request) under the transport outcome env:
\* raised says whether an exception leaves make_request, response is the
\* APIResponse it returns.
make_request(request, env) ==
    IF env.kind = "response"
    THEN LET response_data == IF env.body.kind = "text" THEN NoneVal
                              ELSE env.body.repr
             success == IsSuccessStatus(env.status)
         IN IF env.body.kind = "array"
            \* APIResponse(data=<list>) fails validation (data is a Dict):
            \* a ValueError, caught by "except Exception"
            THEN [raised |-> FALSE,
                  response |-> APIResponse(0, NoneVal, NoneVal,
                      "Unexpected error: 1 validation error for APIResponse", FALSE)]
            ELSE [raised |-> FALSE,
                  response |-> APIResponse(env.status, response_data, env.body.text,
                      IF success THEN NoneVal
                      ELSE "HTTP " \o ToStr(env.status) \o ": " \o Reason(env.status),
                      success)]
    ELSE IF env.kind = "client_error"
    THEN [raised |-> FALSE,
          response |-> APIResponse(0, NoneVal, NoneVal, "Client error: " \o env.msg, FALSE)]
    ELSE [raised |-> FALSE,
          response |-> APIResponse(0, NoneVal, NoneVal, "Unexpected error: " \o env.msg, FALSE)]

\* the requests parse_api_request_from_text can hand to make_request
ApiRequests ==
    { r \in { APIRequest(json_loads(d)) : d \in JsonObjects } : r.ok }

NoCall ==
    [request |-> NoRequest,
     env     |-> [kind |-> "none", status |-> 0, body |-> NoBody, msg |-> NoneVal],
     raised  |-> FALSE,
     response |-> APIResponse(0, NoneVal, NoneVal, NoneVal, FALSE)]

\* APIToolsService.__init__, and no call made
InitApi ==
    /\ api_session = "None"
    /\ api_last = NoCall

-----------------------------------------------------------------------------
(* app/services/llm.py *)

\* stop=stop_after_attempt(3)
STOP_AFTER_ATTEMPT == 3

\* The LLM backend of one run: llm.agenerate raises on its first `fails`
\* invocations and then returns `text` with llm_output `llm_output`.
LlmTexts ==
    { "Hi",
      "Sure.\n\nAPI_CALL: " \o DocUrl,
      "API_CALL: " \o DocNested \o " done",
      "API_CALL: " \o DocBadUrl,
      "API_CALL: {\"url\"",
      "API_CALL: {oops}",
      "api_call: " \o DocUrl }

LlmBackends ==
    { [fails |-> f, text |-> t, llm_output |-> o] :
          f \in 0..MaxLlmFailures, t \in LlmTexts,
          o \in { {}, {<<"model_name", "gpt-3.5-turbo">>} } }

\* no backend: generate has not run
NoLlm == [fails |-> 0, text |-> NoneVal, llm_output |-> {}]

\* a stop condition that allows one attempt more
StopAfterAttempt_OffByOne(attempt_number) == attempt_number > STOP_AFTER_ATTEMPT

\* should tenacity stop after the attempt numbered attempt_number
StopAfterAttempt(attempt_number) == attempt_number >= STOP_AFTER_ATTEMPT

\* generate_llm_response under @retry: attempt after attempt until one
\* returns or the stop condition holds; calls counts the invocations made.
RECURSIVE generate_llm_response(_, _)
generate_llm_response(llm, attempt_number) ==
    IF attempt_number > llm.fails
    THEN [raised |-> FALSE, response |-> llm.text, metadata |-> llm.llm_output,
          calls |-> attempt_number]
    ELSE IF StopAfterAttempt(attempt_number)
    THEN [raised |-> TRUE, response |-> NoneVal, metadata |-> {},
          calls |-> attempt_number]
    ELSE generate_llm_response(llm, attempt_number + 1)

-----------------------------------------------------------------------------
(* app/database/database.py *)

\* next(get_db()): get_db is an async generator function, so next() on its
\* result raises TypeError before any database session exists.
NextGetDb ==
    [raised |-> TRUE, error |-> "'async_generator' object is not an iterator"]

-----------------------------------------------------------------------------
(* app/graph/nodes.py: every node maps a state to a result; raised says     *)
(* whether an exception leaves the node, llm_calls and api_requests count   *)
(* the LLM invocations and the external requests the node made.             *)

Return(st) ==
    [raised |-> FALSE, st |-> st, error |-> NoneVal, llm_calls |-> 0, api_requests |-> 0]
Raise(st, error) ==
    [raised |-> TRUE, st |-> st, error |-> error, llm_calls |-> 0, api_requests |-> 0]

MAX_MESSAGE_LENGTH == 4000

\* a generate that answers with an apology when the LLM call fails
generate_response_Swallow(st, llm) ==
    LET messages == Get(st, "messages", <<>>)
        metadata == Get(st, "metadata", {})
        result   == generate_llm_response(llm, 1)
    IN IF messages = <<>>
       THEN Return(Set(st, "response", "No messages to respond to."))
       ELSE IF result.raised
       THEN [Return(Set(st, "response", "Sorry, something went wrong."))
             EXCEPT !.llm_calls = result.calls]
       ELSE [Return(Set(Set(Set(st,
                 "messages", Append(messages, AIMessage(result.response))),
                 "response", result.response),
                 "metadata", Merge(metadata, result.metadata)))
             EXCEPT !.llm_calls = result.calls]

\* generate_response(state, llm)
generate_response(st, llm) ==
    LET messages == Get(st, "messages", <<>>)
        metadata == Get(st, "metadata", {})
        result   == generate_llm_response(llm, 1)
    IN IF messages = <<>>
       THEN Return(Set(st, "response", "No messages to respond to."))
       ELSE IF result.raised
       THEN [Raise(st, "RetryError") EXCEPT !.llm_calls = result.calls]
       ELSE [Return(Set(Set(Set(st,
                 "messages", Append(messages, AIMessage(result.response))),
                 "response", result.response),
                 "metadata", Merge(metadata, result.metadata)))
             EXCEPT !.llm_calls = result.calls]

\* a loop body that also truncates a content of exactly the maximum length
PreprocessMessage_Inclusive(message) ==
    IF Len(message.content) >= MAX_MESSAGE_LENGTH
    THEN [message EXCEPT !.content =
              SubSeq(message.content, 1, MAX_MESSAGE_LENGTH) \o "... [truncated]"]
    ELSE message

\* the loop body of preprocess_input on one message
PreprocessMessage(message) ==
    IF Len(message.content) > MAX_MESSAGE_LENGTH
    THEN [message EXCEPT !.content =
              SubSeq(message.content, 1, MAX_MESSAGE_LENGTH) \o "... [truncated]"]
    ELSE message

\* a preprocess that drops the last message
preprocess_input_DropLast(st) ==
    LET messages == Get(st, "messages", <<>>)
    IN Return(Set(st, "messages",
           [i \in 1..(Len(messages) - 1) |-> PreprocessMessage(messages[i])]))

\* preprocess_input(state)
preprocess_input(st) ==
    LET messages == Get(st, "messages", <<>>)
    IN Return(Set(st, "messages",
           [i \in 1..Len(messages) |-> PreprocessMessage(messages[i])]))

\* postprocess_output(state): state["metadata"] raises KeyError when the
\* state has no metadata
postprocess_output(st) ==
    IF "metadata" \notin st.keys
    THEN Raise(st, "'metadata'")
    ELSE Return(Set(st, "metadata", Merge(st.metadata, {<<"postprocessed", "True">>})))

\* a load node that lets the exception of next(get_db()) escape
load_conversation_history_NoCatch(st, db, loaded, history_message) ==
    IF ~TruthyStr(Get(st, "session_id", NoneVal))
    THEN Return(Set(st, "history", <<>>))
    ELSE IF db.raised
    THEN Raise(st, db.error)
    ELSE Return(Set(st, "history", loaded))

\* load_conversation_history(state), the node: db is the outcome of
\* next(get_db()), loaded the list HistoryService returns, history_message
\* the SystemMessage built from it
load_conversation_history(st, db, loaded, history_message) ==
    LET session_id == Get(st, "session_id", NoneVal)
    IN IF ~TruthyStr(session_id)
       THEN Return(Set(st, "history", <<>>))
       ELSE IF db.raised
       THEN Return(Set(st, "history", <<>>))
       ELSE IF loaded # <<>>
       THEN Return(Set(Set(st, "history", loaded),
                       "messages", <<history_message>> \o Get(st, "messages", <<>>)))
       ELSE Return(Set(st, "history", loaded))

\* a check that raises the flag and does not store the request
check_for_api_call_FlagOnly(st) ==
    LET response == Get(st, "response", "")
    IN IF response = NoneVal THEN Raise(st, "argument of type 'NoneType' is not iterable")
       ELSE IF should_make_api_call(response)
       THEN Return(Set(st, "should_call_api", TRUE))
       ELSE Return(Set(st, "should_call_api", FALSE))

\* check_for_api_call(state): "API_CALL:" in None raises TypeError
check_for_api_call(st) ==
    LET response == Get(st, "response", "")
    IN IF response = NoneVal THEN Raise(st, "argument of type 'NoneType' is not iterable")
       ELSE IF should_make_api_call(response)
       THEN Return(Set(Set(st, "should_call_api", TRUE), "api_request", response))
       ELSE Return(Set(st, "should_call_api", FALSE))

\* What happens around one make_api_call: exc is the message of an exception
\* of a class parse_api_request_from_text does not catch (RecursionError from
\* json.loads on a deeply nested directive), NoneVal when there is none;
\* transport is the outcome of the HTTP request.
ApiEnvs ==
    { [exc |-> e, transport |-> t] :
          e \in {NoneVal, "maximum recursion depth exceeded"},
          t \in TransportOutcomes }

\* the dict make_api_call stores for an APIResponse
ApiResponseDict(response) ==
    [keys        |-> {"status_code", "data", "text", "error", "success"},
     status_code |-> response.status_code,
     data        |-> response.data,
     text        |-> response.text,
     error       |-> response.error,
     success     |-> response.success]

\* the dict make_api_call stores when there is no APIResponse
ApiFailureDict(error) ==
    [NoApiResponse EXCEPT !.keys = {"error", "success"}, !.error = error,
                          !.success = FALSE]

\* response.data or response.text
DataOrText(response) ==
    IF response.data \notin {NoneVal, "{}"} THEN response.data ELSE response.text

\* a make_api_call that stores the API result as the response
make_api_call_Overwrite(st, env) ==
    LET api_request_text == Get(st, "api_request", "")
        api_request == parse_api_request_from_text(api_request_text)
        result      == make_request(api_request, env.transport)
        response    == result.response
    IN IF env.exc # NoneVal /\ DirectiveOf(api_request_text) # NoneVal
       THEN Return(Set(Set(st, "api_response", ApiFailureDict(env.exc)),
                       "response", Get(st, "response", "") \o "\n\nAPI Error: " \o env.exc))
       ELSE IF ~api_request.ok
       THEN Return(Set(st, "api_response", ApiFailureDict("Failed to parse API request")))
       ELSE [Return(Set(Set(st, "api_response", ApiResponseDict(response)),
                        "response",
                        IF response.success
                        THEN "\n\nAPI Response: " \o DataOrText(response)
                        ELSE "\n\nAPI Error: " \o response.error))
             EXCEPT !.api_requests = 1]

\* make_api_call(state)
make_api_call(st, env) ==
    LET api_request_text == Get(st, "api_request", "")
        api_request == parse_api_request_from_text(api_request_text)
        result      == make_request(api_request, env.transport)
        response    == result.response
    IN IF env.exc # NoneVal /\ DirectiveOf(api_request_text) # NoneVal
       THEN \* except Exception as e
            Return(Set(Set(st, "api_response", ApiFailureDict(env.exc)),
                       "response", Get(st, "response", "") \o "\n\nAPI Error: " \o env.exc))
       ELSE IF ~api_request.ok
       THEN Return(Set(st, "api_response", ApiFailureDict("Failed to parse API request")))
       ELSE [Return(Set(Set(st, "api_response", ApiResponseDict(response)),
                        "response",
                        Get(st, "response", "") \o
                            (IF response.success
                             THEN "\n\nAPI Response: " \o DataOrText(response)
                             ELSE "\n\nAPI Error: " \o response.error)))
             EXCEPT !.api_requests = 1]

\* The save_message calls save_to_history issues, in order: the latest
\* human message, then the response as an "ai" message; none when the state
\* has no session_id or next(get_db()) raises.
HistoryWrites(st, db) ==
    LET session_id == Get(st, "session_id", NoneVal)
        messages   == Get(st, "messages", <<>>)
        human      == {i \in 1..Len(messages) : messages[i].type = "human"}
        latest     == CHOOSE i \in human : \A j \in human : j <= i
        response   == Get(st, "response", NoneVal)
    IN IF ~TruthyStr(session_id) \/ db.raised THEN <<>>
       ELSE (IF human # {}
             THEN <<[session_id |-> session_id, message_type |-> "human",
                     content |-> messages[latest].content]>>
             ELSE <<>>)
            \o
            (IF TruthyStr(response)
             THEN <<[session_id |-> session_id, message_type |-> "ai",
                     content |-> response]>>
             ELSE <<>>)

\* save_to_history(state): every path returns the state it was given, and
\* an exception of the history calls is logged and swallowed
save_to_history(st, db) == Return(st)

-----------------------------------------------------------------------------
(* app/graph/builder.py *)

END == "END"

\* graph.add_node
Nodes(v) ==
    IF v = "minimal"
    THEN {"preprocess", "generate", "postprocess"}
    ELSE {"load_history", "preprocess", "generate", "check_api",
          "make_api_call", "postprocess", "save_history"}

\* graph.set_entry_point
EntryPoint(v) == IF v = "minimal" THEN "preprocess" ELSE "load_history"

\* an enhanced graph whose generate node is wired to postprocess
Edges_SkipCheck(v) ==
    IF v = "minimal"
    THEN { <<"preprocess", "generate">>, <<"generate", "postprocess">>,
           <<"postprocess", END>> }
    ELSE { <<"load_history", "preprocess">>, <<"preprocess", "generate">>,
           <<"generate", "postprocess">>, <<"make_api_call", "postprocess">>,
           <<"postprocess", "save_history">>, <<"save_history", END>> }

\* graph.add_edge
Edges(v) ==
    IF v = "minimal"
    THEN { <<"preprocess", "generate">>, <<"generate", "postprocess">>,
           <<"postprocess", END>> }
    ELSE { <<"load_history", "preprocess">>, <<"preprocess", "generate">>,
           <<"generate", "check_api">>, <<"make_api_call", "postprocess">>,
           <<"postprocess", "save_history">>, <<"save_history", END>> }

\* api_router(state), the router of the conditional edges of check_api
api_router(st) ==
    IF Get(st, "should_call_api", FALSE) THEN "make_api_call" ELSE "postprocess"

\* the node that follows `node` once it has returned the state st
NextNode(v, node, st) ==
    IF v = "enhanced" /\ node = "check_api"
    THEN api_router(st)
    ELSE CHOOSE to \in Nodes(v) \cup {END} : <<node, to>> \in Edges(v)

\* the environment of one run: the LLM backend and the API transport
RunEnvs == { [llm |-> l, api |-> a] : l \in LlmBackends, a \in ApiEnvs }

\* the node function registered under a name, applied to a state
RunNode(node, st, env) ==
    CASE node = "load_history"  -> load_conversation_history(st, NextGetDb, <<>>, SystemMessage(""))
      [] node = "preprocess"    -> preprocess_input(st)
      [] node = "generate"      -> generate_response(st, env.llm)
      [] node = "check_api"     -> check_for_api_call(st)
      [] node = "make_api_call" -> make_api_call(st, env.api)
      [] node = "postprocess"   -> postprocess_output(st)
      [] node = "save_history"  -> save_to_history(st, NextGetDb)

-----------------------------------------------------------------------------
(* One run of a compiled graph, node by node *)

\* a text of n characters
RECURSIVE TextOfLen(_)
TextOfLen(n) ==
    IF n = 0 THEN ""
    ELSE IF n % 2 = 0 THEN LET half == TextOfLen(n \div 2) IN half \o half
    ELSE "x" \o TextOfLen(n - 1)

\* the message lists of a request: none, a short message, a message of
\* exactly MAX_MESSAGE_LENGTH characters, and a longer one before a short one
Messages ==
    { <<>>,
      <<HumanMessage("Hello")>>,
      <<HumanMessage(TextOfLen(MAX_MESSAGE_LENGTH))>>,
      <<HumanMessage(TextOfLen(MAX_MESSAGE_LENGTH + 1)), HumanMessage("Hello")>> }

\* the states a caller hands to graph.ainvoke
InitialStates ==
    { GraphState({"messages"} \cup (IF hasMeta THEN {"metadata"} ELSE {})
                              \cup (IF sid # NoneVal THEN {"session_id"} ELSE {}),
                 msgs,
                 IF hasMeta THEN {<<"request_id", "r1">>} ELSE {},
                 sid) :
          msgs \in Messages, hasMeta \in BOOLEAN, sid \in {NoneVal, "s1"} }

-----------------------------------------------------------------------------
(* app/api/models.py and the state of app/api/routes.py *)

\* WebhookStatusResponse
WebhookStatusResponse(track_id, status, timestamp, response, error) ==
    [track_id |-> track_id, status |-> status, timestamp |-> timestamp,
     response |-> response, error |-> error]

NoEntry == WebhookStatusResponse(NoneVal, "none", 0, NoneVal, NoneVal)

\* no status query has been answered
NoQuery ==
    [track_id |-> NoneVal, status_code |-> 0, body_track_id |-> NoneVal,
     body_status |-> "none", acked |-> FALSE]

\* the track ids requests carry or uuid4() returns
TrackIds == {"t1", "t2"}

\* webhook_requests = {} (a missing key holds NoEntry), no background task,
\* no reply
InitRoutes ==
    /\ webhook_requests = [t \in TrackIds |-> NoEntry]
    /\ tasks = <<>>
    /\ acked = {}
    /\ query = NoQuery
    /\ chats = <<>>
    /\ now = 0

-----------------------------------------------------------------------------
(* app/services/history.py over the tables of app/database/models.py *)

\* a row of chat_messages
ChatMessage(session_id, message_type, content, created_at) ==
    [session_id |-> session_id, message_type |-> message_type,
     content |-> content, created_at |-> created_at]

\* message_type is a String(20): 'human', 'ai' and 'system' are what
\* HistoryService writes, 'user' and 'assistant' what the column documents
MessageTypes == {"human", "ai", "user"}

SessionIds == {"1", "2", "3"}

\* values of created_at
DateTimes == {1, 2}

\* the db a HistoryService is built on: a Session that works, a Session whose
\* queries raise OperationalError, or the AsyncSession of get_db(), which has
\* no query attribute
DbHandles == {"Session", "SessionDown", "AsyncSession"}

\* the limits a caller passes
Limits == {0, 1, 2, 10}

Min(a, b) == IF a <= b THEN a ELSE b

\* db.query(ChatMessage).filter(session_id == sid)
\*   .order_by(desc(created_at)).limit(limit).all(): the sequences of row
\* numbers the database may return, rows of equal created_at in either order
QueryRecent(rows, sid, limit) ==
    LET mine == {i \in 1..Len(rows) : rows[i].session_id = sid}
        k    == Min(limit, Cardinality(mine))
    IN { q \in [1..k -> mine] :
           /\ \A i, j \in 1..k : i < j =>
                  q[i] # q[j] /\ rows[q[i]].created_at >= rows[q[j]].created_at
           /\ \A i \in 1..k : \A m \in mine \ {q[j] : j \in 1..k} :
                  rows[m].created_at <= rows[q[i]].created_at }

\* list.reverse()
Reverse(q) == [i \in 1..Len(q) |-> q[Len(q) + 1 - i]]

\* the conversion loop: a row whose message_type is not 'human', 'ai' or
\* 'system' adds nothing to langchain_messages
RECURSIVE ToLangchain(_)
ToLangchain(msgs) ==
    IF msgs = <<>> THEN <<>>
    ELSE (CASE msgs[1].message_type = "human"  -> <<HumanMessage(msgs[1].content)>>
            [] msgs[1].message_type = "ai"     -> <<AIMessage(msgs[1].content)>>
            [] msgs[1].message_type = "system" -> <<SystemMessage(msgs[1].content)>>
            [] OTHER                           -> <<>>)
         \o ToLangchain(Tail(msgs))

\* a load that lets the error of the store escape
HistoryService_load_conversation_history_NoCatch(db, sessions, rows, session_id, q) ==
    IF db # "Session"
    THEN [raised |-> TRUE, rows |-> <<>>, messages |-> <<>>]
    ELSE IF session_id \notin sessions
    THEN [raised |-> FALSE, rows |-> <<>>, messages |-> <<>>]
    ELSE LET messages == Reverse([i \in 1..Len(q) |-> rows[q[i]]])
         IN [raised |-> FALSE, rows |-> messages, messages |-> ToLangchain(messages)]

\* HistoryService(db).load_conversation_history(session_id, limit), q being
\* what the messages query returns: rows are the rows after reverse(),
\* messages the list returned
HistoryService_load_conversation_history(db, sessions, rows, session_id, q) ==
    IF db # "Session"
    THEN \* except Exception as e
         [raised |-> FALSE, rows |-> <<>>, messages |-> <<>>]
    ELSE IF session_id \notin sessions
    THEN [raised |-> FALSE, rows |-> <<>>, messages |-> <<>>]
    ELSE LET messages == Reverse([i \in 1..Len(q) |-> rows[q[i]]])
         IN [raised |-> FALSE, rows |-> messages, messages |-> ToLangchain(messages)]

NoLoad ==
    [called |-> FALSE, db |-> "Session", session_id |-> NoneVal, limit |-> 0,
     raised |-> FALSE, rows |-> <<>>, messages |-> <<>>]

NoNodeCall ==
    [called |-> FALSE, raised |-> FALSE,
     before |-> GraphState({}, <<>>, {}, NoneVal),
     after  |-> GraphState({}, <<>>, {}, NoneVal)]

\* the runs that reach save_history concurrently
SaveRuns == {"r1", "r2"}

\* no run is at save_history
NoSaveRun == [pc |-> "idle", st |-> GraphState({}, <<>>, {}, NoneVal)]

\* the tables are empty and no history call has been made
IdleHistory ==
    /\ chat_sessions = {}
    /\ chat_messages = <<>>
    /\ hist_out = NoLoad
    /\ hist_node = NoNodeCall
    /\ save_runs = [r \in SaveRuns |-> NoSaveRun]

\* no send_webhook_response call has been made
IdleSend == send = [data |-> NoneVal, posts |-> <<>>, result |-> "idle"]

NoCleanup ==
    [called |-> FALSE, max_age_hours |-> 0, at |-> 0, raised |-> FALSE,
     returned |-> 0, before |-> [t \in TrackIds |-> NoEntry]]

\* no update_request or get_request call has been made
NoTrackerCall ==
    [op |-> "none", track_id |-> NoneVal, kwargs |-> {}, at |-> 0,
     raised |-> FALSE, returned |-> NoEntry]

\* the coroutines that call the tracker concurrently
Coroutines == {"c1", "c2"}

\* a coroutine that has not called the tracker
NoCoroutine ==
    [op |-> "none", pc |-> "idle", track_id |-> NoneVal, kwargs |-> {},
     at |-> 0, raised |-> FALSE, returned |-> NoEntry,
     seen |-> [t \in TrackIds |-> NoEntry]]

\* RequestTracker.__init__: an empty map and a free lock; no call made
IdleTracker ==
    /\ tracker = [t \in TrackIds |-> NoEntry]
    /\ tracker_out = NoCleanup
    /\ tracker_call = NoTrackerCall
    /\ tracker_lock = NoneVal
    /\ coroutines = [c \in Coroutines |-> NoCoroutine]

\* the ids remove-admin requests name
UserIds == {1, 2, 3}

\* the remove-admin requests handled concurrently
AdminRequests == {"a1", "a2"}

\* no request is being handled
NoAdminRequest ==
    [pc |-> "idle", current_user |-> 0, user_id |-> 0, user |-> "none",
     admin_count |-> 0, status_code |-> 0]

\* one admin and no remove-admin request
IdleAdmin ==
    /\ users = [u \in UserIds |-> IF u = 1 THEN "admin" ELSE "none"]
    /\ admin_requests = [a \in AdminRequests |-> NoAdminRequest]

\* the services exercised on their own are idle
InitAux == IdleParse /\ IdleHistory /\ IdleSend /\ IdleTracker /\ IdleAdmin

\* what the tables hold when a run starts: nothing, or an earlier turn of
\* session s1
StoredHistories ==
    { <<>>,
      <<ChatMessage("s1", "human", "Earlier", 0), ChatMessage("s1", "ai", "Reply", 0)>> }

InitGraph ==
    /\ variant \in {"minimal", "enhanced"}
    /\ state \in InitialStates
    /\ pc = EntryPoint(variant)
    /\ trace = <<>>
    /\ llm_calls = 0
    /\ api_requests = 0
    /\ llm_used = NoLlm
    /\ generated = NoneVal
    /\ initial = state
    /\ InitRoutes
    /\ InitApi
    /\ IdleParse /\ IdleSend /\ IdleTracker /\ IdleAdmin
    /\ chat_messages \in StoredHistories
    /\ chat_sessions = {chat_messages[i].session_id : i \in 1..Len(chat_messages)}
    /\ hist_out = NoLoad
    /\ hist_node = NoNodeCall
    /\ save_runs = [r \in SaveRuns |-> NoSaveRun]

\* one node of the run executes
Step(node, env) ==
    /\ pc = node
    /\ LET r == RunNode(node, state, env)
       IN /\ state' = r.st
          /\ pc' = IF r.raised THEN "RAISED" ELSE NextNode(variant, node, r.st)
          /\ llm_calls' = llm_calls + r.llm_calls
          /\ api_requests' = api_requests + r.api_requests
          /\ llm_used' = IF node = "generate" THEN env.llm ELSE llm_used
          /\ generated' = IF node = "generate" /\ ~r.raised THEN r.st.response
                          ELSE generated
    /\ trace' = Append(trace, node)
    /\ LET writes == IF node = "save_history" THEN HistoryWrites(state, NextGetDb)
                     ELSE <<>>
       IN /\ chat_messages' = chat_messages \o
                 [i \in 1..Len(writes) |->
                     ChatMessage(writes[i].session_id, writes[i].message_type,
                                 writes[i].content, now)]
          /\ chat_sessions' = chat_sessions \cup
                 {writes[i].session_id : i \in 1..Len(writes)}
    /\ UNCHANGED <<variant, initial, routeVars, apiVars, adminVars, parseVars, hist_out, hist_node, save_runs, send, trackVars>>

\* a node that calls neither the LLM nor the API runs the same under every
\* environment
AnyEnv == CHOOSE env \in RunEnvs : TRUE

LoadHistory == Step("load_history", AnyEnv)
Preprocess  == Step("preprocess", AnyEnv)
Generate    == \E llm \in LlmBackends : Step("generate", [AnyEnv EXCEPT !.llm = llm])
CheckApi    == Step("check_api", AnyEnv)
MakeApiCall == \E api \in ApiEnvs : Step("make_api_call", [AnyEnv EXCEPT !.api = api])
Postprocess == Step("postprocess", AnyEnv)
SaveHistory == Step("save_history", AnyEnv)

NextGraph ==
    \/ LoadHistory
    \/ Preprocess
    \/ Generate
    \/ CheckApi
    \/ MakeApiCall
    \/ Postprocess
    \/ SaveHistory

SpecGraph == InitGraph /\ [][NextGraph]_vars

-----------------------------------------------------------------------------
(* Properties of one run *)

Range(seq) == {seq[i] : i \in 1..Len(seq)}

IsPrefix(a, b) == Len(a) <= Len(b) /\ SubSeq(b, 1, Len(a)) = a

Last(seq) == seq[Len(seq)]

MinimalOrder  == <<"preprocess", "generate", "postprocess">>
EnhancedNoApi == <<"load_history", "preprocess", "generate", "check_api",
                   "postprocess", "save_history">>
EnhancedApi   == <<"load_history", "preprocess", "generate", "check_api",
                   "make_api_call", "postprocess", "save_history">>

Executed(node) == node \in Range(trace)

\* C1: the nodes of a run execute in the fixed order of the graph (load_history,
\* preprocess, generate, check_api, make_api_call only when the router chose
\* it, postprocess, save_history for the enhanced graph; preprocess, generate,
\* postprocess for the minimal one), no node executes twice, and a run that
\* reaches END has executed the whole sequence.
C1_NodeOrder ==
    /\ variant = "minimal" =>
           /\ IsPrefix(trace, MinimalOrder)
           /\ pc = END => trace = MinimalOrder
    /\ variant = "enhanced" =>
           /\ IsPrefix(trace, EnhancedNoApi) \/ IsPrefix(trace, EnhancedApi)
           /\ pc = END => trace \in {EnhancedNoApi, EnhancedApi}
           /\ Executed("make_api_call") => Get(state, "should_call_api", FALSE)
    /\ \A i, j \in 1..Len(trace) : trace[i] = trace[j] => i = j
    /\ pc \notin {END, "RAISED"} =>
           trace \o <<pc>> \in { SubSeq(o, 1, Len(trace) + 1) :
                                   o \in {q \in {MinimalOrder, EnhancedNoApi, EnhancedApi} :
                                              Len(q) > Len(trace)} }

C1_Witness ==
    /\ variant = "enhanced"
    /\ pc = END
    /\ trace = EnhancedApi

\* C2: in the enhanced graph make_api_call executes exactly when the text
\* generate produced contains "API_CALL:"; without the marker check_api
\* routes to postprocess and the run makes no external API request.
C2_ApiCallIffMarker ==
    variant = "enhanced" /\ Executed("check_api") /\ pc # "RAISED" =>
        /\ (Executed("make_api_call") \/ pc = "make_api_call")
               <=> Contains(generated, API_CALL)
        /\ ~Contains(generated, API_CALL) =>
               /\ api_requests = 0
               /\ Last(trace) = "check_api" => pc = "postprocess"

C2_Witness ==
    /\ variant = "enhanced"
    /\ pc = END
    /\ Executed("make_api_call")
    /\ Contains(generated, API_CALL)
    /\ api_requests = 1

\* C3: generate invokes the LLM at most 3 times in a run; when the first
\* k < 3 invocations raise and the next succeeds it makes exactly k + 1
\* invocations and the run goes on; when 3 invocations raise the run ends with
\* the error at generate: no assistant message, no response, no later node.
C3_LlmRetry ==
    /\ llm_calls <= 3
    /\ Executed("generate") /\ Get(state, "messages", <<>>) # <<>> =>
           /\ llm_used.fails < 3 =>
                  /\ llm_calls = llm_used.fails + 1
                  /\ ~(pc = "RAISED" /\ Last(trace) = "generate")
                  /\ Last(state.messages) = AIMessage(llm_used.text)
                  /\ generated = llm_used.text
           /\ llm_used.fails >= 3 =>
                  /\ llm_calls = 3
                  /\ pc = "RAISED"
                  /\ Last(trace) = "generate"
                  /\ \A i \in 1..Len(state.messages) : state.messages[i].type # "ai"
                  /\ "response" \notin state.keys
                  /\ state.response = NoneVal

C3_Witness ==
    /\ llm_used.fails >= 3
    /\ llm_calls = 3
    /\ pc = "RAISED"

\* C4: a run of the enhanced graph that was started with metadata raises only
\* when generate exhausts its LLM attempts; a failed history load leaves an
\* empty history, a failed parse or API request leaves a failed api_response,
\* and the run goes on: until END there is always a node left to execute that
\* has not executed yet, and at END the state holds a response.
C4_Absorbed ==
    variant = "enhanced" /\ "metadata" \in initial.keys =>
        /\ pc = "RAISED" => Last(trace) = "generate" /\ llm_used.fails >= 3
        /\ pc \notin {END, "RAISED"} => pc \in Nodes(variant) \ Range(trace)
        /\ pc = END => "response" \in state.keys /\ state.response # NoneVal
        /\ Executed("load_history") =>
               "history" \in state.keys /\ state.history = <<>>
        /\ Executed("make_api_call") =>
               /\ "api_response" \in state.keys
               /\ api_requests = 0 => ~state.api_response.success
               /\ pc # "RAISED"

C4_Witness ==
    /\ variant = "enhanced"
    /\ "metadata" \in initial.keys
    /\ "session_id" \in initial.keys
    /\ pc = END
    /\ Executed("make_api_call")
    /\ ~state.api_response.success
    /\ state.history = <<>>

\* C13: when make_api_call cannot parse api_request it records a failed
\* api_response whose error says the request failed to parse, appends an
\* "\n\nAPI Error: ..." suffix to the response and changes it in no other way,
\* and the run continues to postprocess.
C13_ParseFailureAppendsError ==
    (/\ variant = "enhanced"
     /\ trace # <<>> /\ Last(trace) = "make_api_call"
     /\ state.api_response.error = "Failed to parse API request") =>
        /\ ~state.api_response.success
        /\ ~parse_api_request_from_text(state.api_request).ok
        /\ StartsWith(Get(state, "response", ""), generated \o "\n\nAPI Error: ")
        /\ pc = "postprocess"

\* C17: a run on a session with no stored messages, with human message
\* "Hello" and LLM output "Hi", leaves after save_history two stored records,
\* and a load of the history of that session returns human "Hello", then
\* assistant "Hi".
C17_SaveThenLoad ==
    (/\ variant = "enhanced" /\ pc = END
     /\ Get(initial, "session_id", NoneVal) = "s1"
     /\ initial.messages = <<HumanMessage("Hello")>>
     /\ generated = "Hi") =>
        /\ Len(chat_messages) = 2
        /\ \A q \in QueryRecent(chat_messages, "s1", 10) :
               HistoryService_load_conversation_history(
                   "Session", chat_sessions, chat_messages, "s1", q).messages
                 = <<HumanMessage("Hello"), AIMessage("Hi")>>

\* C14: when the directive is parsed and the API is invoked, the response is
\* the text generate produced followed by "\n\nAPI Response: " and the data
\* (the text when there is no data) of a successful result, or by
\* "\n\nAPI Error: " and the error of a failed one; it stays so to the end
\* of the run, where should_call_api is true.
C14_ApiResultAppended ==
    (variant = "enhanced" /\ Executed("make_api_call") /\ api_requests = 1
     /\ pc # "RAISED") =>
        /\ "status_code" \in state.api_response.keys
        /\ state.api_response.success =>
               state.response = generated \o "\n\nAPI Response: " \o
                   (IF state.api_response.data \in {NoneVal, "{}"}
                    THEN state.api_response.text ELSE state.api_response.data)
        /\ ~state.api_response.success =>
               state.response = generated \o "\n\nAPI Error: " \o state.api_response.error
        /\ pc = END => state.should_call_api

C14_Witness ==
    /\ variant = "enhanced"
    /\ pc = END
    /\ api_requests = 1
    /\ state.api_response.success
    /\ state.response = generated \o "\n\nAPI Response: {'a': 1}"
    /\ state.should_call_api

-----------------------------------------------------------------------------
(* graph.ainvoke as one call, and the handlers of app/api/routes.py *)

\* the run from `node` on: the result of the node that raises, or of the last
\* node before END
RECURSIVE RunFrom(_, _, _, _)
RunFrom(v, node, st, env) ==
    LET r == RunNode(node, st, env)
    IN IF r.raised THEN r
       ELSE IF NextNode(v, node, r.st) = END THEN r
       ELSE RunFrom(v, NextNode(v, node, r.st), r.st, env)

\* graph.ainvoke(state)
AInvoke(v, st, env) == RunFrom(v, EntryPoint(v), st, env)

\* chat_main.py compiles build_graph(llm) into app.state.graph
AppGraph == "minimal"

\* the LLM backends a request of the routes can meet
RouteEnvs ==
    { [AnyEnv EXCEPT !.llm = l] :
          l \in { b \in LlmBackends : b.llm_output = {} } }

RequestMessages == {"Hello", "What is the weather?"}

\* the backends and the message of the webhook requests
WebhookEnvs ==
    { env \in RouteEnvs :
          env.llm.text = "Hi" /\ env.llm.fails \in {0, STOP_AFTER_ATTEMPT - 1, STOP_AFTER_ATTEMPT} }

WebhookMessages == {"Hello"}

\* a chat handler that answers 200 with the error text when the run raises
ChatReply_ErrorAsText(result) ==
    IF result.raised
    THEN [status_code |-> 200, response |-> result.error, metadata |-> {},
          detail |-> NoneVal]
    ELSE [status_code |-> 200, response |-> result.st.response,
          metadata |-> Get(result.st, "metadata", {}), detail |-> NoneVal]

\* the reply of chat for the outcome `result` of graph.ainvoke: result["response"]
\* raises KeyError and ChatResponse(response=None) fails validation
ChatReply(result) ==
    IF result.raised
    THEN [status_code |-> 500, response |-> NoneVal, metadata |-> {},
          detail |-> "Error processing request: " \o result.error]
    ELSE IF "response" \notin result.st.keys
    THEN [status_code |-> 500, response |-> NoneVal, metadata |-> {},
          detail |-> "Error processing request: 'response'"]
    ELSE IF result.st.response = NoneVal
    THEN [status_code |-> 500, response |-> NoneVal, metadata |-> {},
          detail |-> "Error processing request: 1 validation error for ChatResponse"]
    ELSE [status_code |-> 200, response |-> result.st.response,
          metadata |-> Get(result.st, "metadata", {}), detail |-> NoneVal]

\* chat(request)
Chat ==
    /\ Len(chats) < MaxChats
    /\ \E message \in RequestMessages, env \in RouteEnvs :
           LET st == GraphState({"messages", "metadata"}, <<HumanMessage(message)>>,
                                {<<"request_id", "r1">>}, NoneVal)
               result == AInvoke(AppGraph, st, env)
           IN chats' = Append(chats, [message |-> message, run |-> result,
                                      reply |-> ChatReply(result)])
    /\ UNCHANGED <<graphVars, apiVars, webhook_requests, tasks, acked, query, now, auxVars>>

\* datetime.utcnow() advances
Tick ==
    /\ now < MaxClock
    /\ now' = now + 1
    /\ query' = NoQuery
    /\ UNCHANGED <<graphVars, apiVars, webhook_requests, tasks, acked, chats, auxVars>>

\* a webhook_chat that leaves the entry to the background task
StoreInitialStatus_Skipped(requests, track_id, timestamp) == requests

\* the "Store initial status" assignment of webhook_chat
StoreInitialStatus(requests, track_id, timestamp) ==
    [requests EXCEPT ![track_id] =
         WebhookStatusResponse(track_id, "processing", timestamp, NoneVal, NoneVal)]

\* webhook_chat(request): supplied is metadata["track_id"], NoneVal when the
\* request carries none and uuid4() makes a new one
webhook_chat(supplied, message) ==
    /\ Len(tasks) < MaxRequests
    /\ \E track_id \in TrackIds :
          /\ IF supplied # NoneVal THEN track_id = supplied
             ELSE webhook_requests[track_id] = NoEntry
          /\ webhook_requests' = StoreInitialStatus(webhook_requests, track_id, now)
          /\ tasks' = Append(tasks,
                 [track_id |-> track_id, pc |-> "queued", attempt |-> 0,
                  state |-> GraphState({"messages", "metadata"}, <<HumanMessage(message)>>,
                                       {<<"track_id", track_id>>,
                                        <<"callback_url", "http://cb/">>}, NoneVal)])
          /\ acked' = acked \cup {track_id}
    /\ query' = NoQuery
    /\ UNCHANGED <<graphVars, apiVars, chats, now, auxVars>>

WebhookChat ==
    \E supplied \in TrackIds \cup {NoneVal}, message \in WebhookMessages :
        webhook_chat(supplied, message)

\* a background task that stores no entry when the run raises
RunStatus_KeepsProcessing(track_id, result, timestamp) ==
    IF result.raised \/ "response" \notin result.st.keys
    THEN WebhookStatusResponse(track_id, "processing", timestamp, NoneVal, NoneVal)
    ELSE WebhookStatusResponse(track_id, "completed", timestamp, result.st.response, NoneVal)

\* the entry process_webhook_request stores once graph.ainvoke has returned
\* or raised: result["response"] raises KeyError when the key is missing
RunStatus(track_id, result, timestamp) ==
    IF result.raised
    THEN WebhookStatusResponse(track_id, "failed", timestamp, NoneVal, result.error)
    ELSE IF "response" \notin result.st.keys
    THEN WebhookStatusResponse(track_id, "failed", timestamp, NoneVal, "'response'")
    ELSE WebhookStatusResponse(track_id, "completed", timestamp, result.st.response, NoneVal)

\* process_webhook_request up to its first send_webhook_response
ProcessRun(i) ==
    /\ i \in 1..Len(tasks)
    /\ tasks[i].pc = "queued"
    /\ \E env \in WebhookEnvs :
          LET result == AInvoke(AppGraph, tasks[i].state, env)
              entry  == RunStatus(tasks[i].track_id, result, now)
          IN /\ webhook_requests' = [webhook_requests EXCEPT ![tasks[i].track_id] = entry]
             /\ tasks' = [tasks EXCEPT ![i].pc =
                             IF entry.status = "completed" THEN "send_completed"
                             ELSE "send_failed"]
    /\ query' = NoQuery
    /\ UNCHANGED <<graphVars, apiVars, acked, chats, now, auxVars>>

-----------------------------------------------------------------------------
(* app/services/webhook.py *)

\* What one session.post to the callback does: a response with a status, an
\* aiohttp.ClientError, or a timeout.
PostOutcomes ==
    { [kind |-> "response", status |-> st] : st \in {200, 399, 400, 500} }
    \cup { [kind |-> "client_error", status |-> 0], [kind |-> "timeout", status |-> 0] }

\* a body that raises on a rejection, so that it is retried
PostAttempt_RaiseOnRejection(outcome) ==
    IF outcome.kind = "response" /\ outcome.status < 400 THEN "True" ELSE "raise"

\* the body of send_webhook_response on one attempt: "True", "False", or
\* "raise" (the except clauses log and re-raise)
PostAttempt(outcome) ==
    IF outcome.kind = "response"
    THEN IF outcome.status < 400 THEN "True" ELSE "False"
    ELSE "raise"

\* a stop condition that allows one attempt more
WebhookStopAfterAttempt_OneMore(attempt_number) == attempt_number > WEBHOOK_RETRY_ATTEMPTS

\* stop=stop_after_attempt(settings.WEBHOOK_RETRY_ATTEMPTS)
WebhookStopAfterAttempt(attempt_number) == attempt_number >= WEBHOOK_RETRY_ATTEMPTS

\* send_webhook_response under @retry after the attempt numbered
\* attempt_number: the call returns "True" or "False", raises "RetryError",
\* or makes another attempt ("retry")
send_webhook_response(attempt_number, outcome) ==
    IF PostAttempt(outcome) # "raise" THEN PostAttempt(outcome)
    ELSE IF WebhookStopAfterAttempt(attempt_number) THEN "RetryError"
    ELSE "retry"

\* an except branch that marks the stored entry failed and keeps its response
AfterSend_KeepResponse(task, outcome, entry, timestamp) ==
    IF outcome = "retry"
    THEN [task |-> [task EXCEPT !.attempt = @ + 1], entry |-> entry]
    ELSE IF outcome = "RetryError" /\ task.pc = "send_completed"
    THEN [task  |-> [task EXCEPT !.pc = "send_failed", !.attempt = 0],
          entry |-> [entry EXCEPT !.status = "failed", !.timestamp = timestamp,
                                  !.error = "RetryError"]]
    ELSE [task |-> [task EXCEPT !.pc = "done", !.attempt = 0],
          entry |-> entry]

\* What process_webhook_request does when the send_webhook_response it awaits
\* at `pc` ends with `outcome`: the first call is inside the try block, so its
\* exception reaches "except Exception as e", which stores a failed entry
\* and sends the error; the exception of that second call is logged.
AfterSend(task, outcome, entry, timestamp) ==
    IF outcome = "retry"
    THEN [task |-> [task EXCEPT !.attempt = @ + 1], entry |-> entry]
    ELSE IF outcome = "RetryError" /\ task.pc = "send_completed"
    THEN [task  |-> [task EXCEPT !.pc = "send_failed", !.attempt = 0],
          entry |-> WebhookStatusResponse(task.track_id, "failed", timestamp,
                                          NoneVal, "RetryError")]
    ELSE [task |-> [task EXCEPT !.pc = "done", !.attempt = 0],
          entry |-> entry]

\* one POST of the send_webhook_response a background task awaits
SendWebhookResponse(i) ==
    /\ i \in 1..Len(tasks)
    /\ tasks[i].pc \in {"send_completed", "send_failed"}
    /\ \E post \in PostOutcomes :
          LET outcome == send_webhook_response(tasks[i].attempt + 1, post)
              after   == AfterSend(tasks[i], outcome,
                                   webhook_requests[tasks[i].track_id], now)
          IN /\ tasks' = [tasks EXCEPT ![i] = after.task]
             /\ webhook_requests' =
                    [webhook_requests EXCEPT ![tasks[i].track_id] = after.entry]
    /\ query' = NoQuery
    /\ UNCHANGED <<graphVars, apiVars, acked, chats, now, auxVars>>

\* get_webhook_status(track_id): 404 when the map has no entry
get_webhook_status(requests, track_id) ==
    IF requests[track_id] = NoEntry
    THEN [status_code |-> 404, body |-> NoEntry]
    ELSE [status_code |-> 200, body |-> requests[track_id]]

GetWebhookStatus ==
    /\ \E track_id \in TrackIds :
          LET reply == get_webhook_status(webhook_requests, track_id)
          IN query' = [track_id      |-> track_id,
                       status_code   |-> reply.status_code,
                       body_track_id |-> reply.body.track_id,
                       body_status   |-> reply.body.status,
                       acked         |-> track_id \in acked]
    /\ UNCHANGED <<graphVars, apiVars, webhook_requests, tasks, acked, chats, now, auxVars>>

\* graph variables of a behaviour of the handlers: no run is stepped
IdleGraph ==
    /\ variant = AppGraph
    /\ state = GraphState({}, <<>>, {}, NoneVal)
    /\ initial = state
    /\ pc = END
    /\ trace = <<>>
    /\ llm_calls = 0
    /\ api_requests = 0
    /\ llm_used = NoLlm
    /\ generated = NoneVal

InitHandlers == IdleGraph /\ InitRoutes /\ InitApi /\ InitAux

ProcessWebhookRequest == \E i \in 1..MaxRequests : ProcessRun(i)
SendCallback          == \E i \in 1..MaxRequests : SendWebhookResponse(i)

NextWebhook ==
    \/ WebhookChat
    \/ ProcessWebhookRequest
    \/ SendCallback
    \/ GetWebhookStatus
    \/ Tick

SpecWebhook == InitHandlers /\ [][NextWebhook]_vars

\* the webhook requests and their background tasks alone
NextDelivery ==
    \/ WebhookChat
    \/ ProcessWebhookRequest
    \/ SendCallback

\* a queued background task runs, and a POST it awaits returns or fails
SpecDelivery ==
    /\ InitHandlers
    /\ [][NextDelivery]_vars
    /\ WF_vars(ProcessWebhookRequest \/ SendCallback)

NextChat ==
    \/ Chat
    \/ Tick

SpecChat == InitHandlers /\ [][NextChat]_vars

-----------------------------------------------------------------------------
(* Properties of the handlers *)

Status(requests, t) == requests[t].status

\* the background tasks of the requests accepted with track id t
TasksOf(tks, t) == {i \in 1..Len(tks) : tks[i].track_id = t}

\* C5: the status of a track id starts as processing, changes once, to
\* completed or failed, when its background run finishes, and does not change
\* afterwards; stated for a track id that one request was accepted with.
C5_StatusChangesOnce ==
    [][\A t \in TrackIds :
          /\ Status(webhook_requests, t) = "none" /\ Status(webhook_requests', t) # "none"
                 => Status(webhook_requests', t) = "processing"
          /\ Status(webhook_requests, t) = "processing"
                 => Status(webhook_requests', t) \in {"processing", "completed", "failed"}
          /\ Status(webhook_requests, t) \in {"completed", "failed"}
             /\ Cardinality(TasksOf(tasks', t)) = 1
                 => Status(webhook_requests', t) = Status(webhook_requests, t)]_vars

\* no background task is left to run and no track id is in processing
AllSettled ==
    /\ \A i \in 1..Len(tasks) : tasks[i].pc = "done"
    /\ \A t \in TrackIds : Status(webhook_requests, t) # "processing"

\* C6: every accepted webhook request leaves processing: again and again every
\* background task has ended and no track id is in processing (so a task that
\* is queued ends and a status that is processing becomes completed or
\* failed); the step in which graph.ainvoke returns or raises stores completed
\* or failed, and a task that has ended stays ended.
C6_LeavesProcessing ==
    /\ []<>AllSettled
    /\ [][\A i \in 1..Len(tasks) :
              /\ tasks[i].pc = "queued" /\ tasks'[i].pc # "queued"
                     => Status(webhook_requests', tasks[i].track_id) \in {"completed", "failed"}
              /\ tasks[i].pc = "done" => tasks'[i].pc = "done"]_vars

C6_Witness ==
    /\ Len(tasks) = MaxRequests
    /\ \A i \in 1..Len(tasks) : tasks[i].pc = "done"
    /\ \E t \in TrackIds : Status(webhook_requests, t) = "failed"

\* C7: the entry of a track id is in the map, with status processing, as soon
\* as the request is acknowledged and before its background task runs; a
\* status query for an acknowledged track id returns its entry and a query for
\* a track id never accepted returns 404.
C7_StatusQuery ==
    /\ \A t \in acked : webhook_requests[t] # NoEntry /\ webhook_requests[t].track_id = t
    /\ \A t \in TrackIds \ acked : webhook_requests[t] = NoEntry
    /\ \A i \in 1..Len(tasks) :
           /\ tasks[i].track_id \in acked
           /\ (\A j \in 1..Len(tasks) : tasks[j].track_id = tasks[i].track_id => tasks[j].pc = "queued")
                  => Status(webhook_requests, tasks[i].track_id) = "processing"
    /\ query # NoQuery =>
           IF query.acked
           THEN /\ query.status_code = 200
                /\ query.body_track_id = query.track_id
                /\ query.body_status \in {"processing", "completed", "failed"}
           ELSE /\ query.status_code = 404
                /\ query.body_status = "none"

C7_Witness ==
    /\ query.acked
    /\ query.status_code = 200
    /\ query.body_status = "processing"
    /\ \E i \in 1..Len(tasks) : tasks[i].track_id = query.track_id /\ tasks[i].pc = "queued"
    /\ \E t \in TrackIds : t \notin acked

-----------------------------------------------------------------------------
(* APIToolsService on its own: requests made and the session closed *)

\* await api_service.make_request(request)
MakeRequest ==
    /\ \E request \in ApiRequests, env \in TransportOutcomes :
          LET result == make_request(request, env)
          IN api_last' = [request |-> request, env |-> env,
                          raised |-> result.raised, response |-> result.response]
    /\ api_session' = "open"
    /\ UNCHANGED <<graphVars, routeVars, auxVars>>

\* await api_service.close()
Close ==
    /\ api_session = "open"
    /\ api_session' = "None"
    /\ UNCHANGED <<graphVars, routeVars, api_last, auxVars>>

NextApi ==
    \/ MakeRequest
    \/ Close

SpecApi == InitHandlers /\ [][NextApi]_vars

\* C9: make_request returns an APIResponse and raises nothing, whatever the
\* transport does (connection failure, timeout, any status, a body that is not
\* JSON); when no HTTP response was received the result has status_code 0,
\* success false and a non-empty error.
C9_MakeRequestTotal ==
    api_last # NoCall =>
        /\ ~api_last.raised
        /\ api_last.response.status_code \in Statuses \cup {0}
        /\ api_last.response.success \in BOOLEAN
        /\ api_last.env.kind # "response" =>
               /\ api_last.response.status_code = 0
               /\ ~api_last.response.success
               /\ api_last.response.error \notin {NoneVal, ""}
        /\ api_last.env.kind = "response" /\ api_last.env.body.kind = "text" =>
               /\ api_last.response.status_code = api_last.env.status
               /\ api_last.response.data = NoneVal
               /\ api_last.response.text = api_last.env.body.text

C9_Witness ==
    /\ api_last.env.kind = "timeout"
    /\ api_last.response.status_code = 0
    /\ api_last.response.error = "Unexpected error: "

\* C10: an api_response recorded in the state (a copy of the APIResponse of
\* make_request, or the dict of the parse-failure and exception paths, which
\* has no status_code) has success true exactly when it has a status_code
\* with 200 <= status_code < 300, and a non-empty error exactly when success
\* is false.
C10_SuccessAndError ==
    "api_response" \in state.keys =>
        /\ state.api_response.success <=>
               /\ "status_code" \in state.api_response.keys
               /\ 200 <= state.api_response.status_code
               /\ state.api_response.status_code < 300
        /\ ~state.api_response.success <=>
               state.api_response.error \notin {NoneVal, ""}
        /\ {"error", "success"} \subseteq state.api_response.keys

C10_Witness ==
    /\ "api_response" \in state.keys
    /\ state.api_response.keys = {"error", "success"}
    /\ state.api_response.error = "Failed to parse API request"
    /\ ~state.api_response.success

-----------------------------------------------------------------------------
(* The directive functions of app/services/api_tools.py on their own *)

\* texts an LLM can answer with: words, a marker in either case or none,
\* a JSON document or a fragment of one, and words after it
ParseTexts ==
    { pre \o marker \o doc \o post :
          pre    \in {"", "Sure.\n\n"},
          marker \in {"API_CALL:", "API_CALL: ", "api_call: ", ""},
          doc    \in JsonObjects \cup {"{\"url\"", "{oops}", "{{}", "}{", "", "none"},
          post   \in {"", " done", " }"} }

InitParse ==
    /\ IdleGraph /\ InitRoutes /\ InitApi /\ IdleHistory /\ IdleSend /\ IdleTracker /\ IdleAdmin
    /\ text_in \in ParseTexts
    /\ parse_out = NoParse

\* parse_api_request_from_text(text)
ParseApiRequestFromText ==
    /\ ~parse_out.parsed
    /\ parse_out' = [parse_out EXCEPT !.parsed = TRUE,
                                      !.directive = DirectiveOf(text_in),
                                      !.ok = parse_api_request_from_text(text_in).ok]
    /\ UNCHANGED <<graphVars, routeVars, apiVars, adminVars, text_in, histVars, send, trackVars>>

\* should_make_api_call(text)
ShouldMakeApiCall ==
    /\ ~parse_out.checked
    /\ parse_out' = [parse_out EXCEPT !.checked = TRUE,
                                      !.should = should_make_api_call(text_in)]
    /\ UNCHANGED <<graphVars, routeVars, apiVars, adminVars, text_in, histVars, send, trackVars>>

NextParse ==
    \/ ParseApiRequestFromText
    \/ ShouldMakeApiCall

SpecParse == InitParse /\ [][NextParse]_vars

\* what follows the first marker of t, stripped
AfterMarker(t) == Strip(SubSeq(t, Find(t, API_CALL) + Len(API_CALL), Len(t)))

\* number of characters c among the first j of t
CountChar(t, c, j) == Cardinality({i \in 1..j : CharAt(t, i) = c})

\* no closing brace of t brings the count of open braces back to zero
NeverBalances(t) ==
    \A j \in 1..Len(t) :
        ~(CharAt(t, j) = "}" /\ CountChar(t, "{", j) = CountChar(t, "}", j))

\* C11: for a text with the marker followed by a JSON object (nested objects
\* allowed) the directive is that object, up to its closing brace and nothing
\* after it; for a text whose braces after the marker never balance the
\* result is None.
C11_DirectiveIsOuterObject ==
    (parse_out.parsed /\ Contains(text_in, API_CALL)) =>
        /\ \A d \in JsonObjects :
               StartsWith(AfterMarker(text_in), d) => parse_out.directive = d
        /\ NeverBalances(AfterMarker(text_in)) =>
               parse_out.directive = NoneVal /\ ~parse_out.ok

\* C12: for a text whose directive is well-formed JSON, should_make_api_call
\* equals "the parse result is not None"; for every text a parse result that
\* is not None implies should_make_api_call.
C12_ShouldIffParsed ==
    (parse_out.parsed /\ parse_out.checked) =>
        /\ parse_out.directive \in JsonObjects => (parse_out.should <=> parse_out.ok)
        /\ parse_out.ok => parse_out.should

-----------------------------------------------------------------------------
(* HistoryService on its own: rows inserted, histories loaded *)

InitHistory ==
    /\ IdleGraph /\ InitRoutes /\ InitApi /\ IdleParse /\ IdleSend /\ IdleTracker /\ IdleAdmin
    /\ chat_sessions = {"1", "3"}
    /\ chat_messages = <<>>
    /\ hist_out = NoLoad
    /\ hist_node = NoNodeCall
    /\ save_runs = [r \in SaveRuns |-> NoSaveRun]

\* the content of the n-th row inserted
RowContent(n) ==
    CASE n = 1 -> "first" [] n = 2 -> "second" [] n = 3 -> "third" [] OTHER -> "later"

\* create_chat_message(db, message_data): a row of an existing session, of
\* any message_type and created_at
CreateChatMessage ==
    /\ Len(chat_messages) < MaxMessages
    /\ \E sid \in chat_sessions, type \in MessageTypes, at \in DateTimes :
          chat_messages' = Append(chat_messages,
              ChatMessage(sid, type, RowContent(Len(chat_messages) + 1), at))
    /\ hist_out' = NoLoad
    /\ hist_node' = NoNodeCall
    /\ UNCHANGED <<graphVars, routeVars, apiVars, adminVars, parseVars, chat_sessions, save_runs, send, trackVars>>

\* HistoryService(db).load_conversation_history(session_id, limit)
LoadConversationHistory ==
    /\ \E db \in DbHandles, session_id \in SessionIds, limit \in Limits :
       \E q \in QueryRecent(chat_messages, session_id, limit) :
          LET r == HistoryService_load_conversation_history(
                       db, chat_sessions, chat_messages, session_id, q)
          IN hist_out' = [called |-> TRUE, db |-> db, session_id |-> session_id,
                          limit |-> limit, raised |-> r.raised, rows |-> r.rows,
                          messages |-> r.messages]
    /\ hist_node' = NoNodeCall
    /\ UNCHANGED <<graphVars, routeVars, apiVars, adminVars, parseVars, chat_sessions, chat_messages, save_runs, send, trackVars>>

\* the load_history node on a state a caller hands to the graph
LoadHistoryNode ==
    /\ \E st \in InitialStates :
          LET r == RunNode("load_history", st, AnyEnv)
          IN hist_node' = [called |-> TRUE, raised |-> r.raised, before |-> st,
                           after |-> r.st]
    /\ hist_out' = NoLoad
    /\ UNCHANGED <<graphVars, routeVars, apiVars, adminVars, parseVars, chat_sessions, chat_messages, save_runs, send, trackVars>>

NextHistory ==
    \/ CreateChatMessage
    \/ LoadConversationHistory
    \/ LoadHistoryNode

SpecHistory == InitHistory /\ [][NextHistory]_vars

\* the rows of session sid, by row number
RowsOf(rows, sid) == {i \in 1..Len(rows) : rows[i].session_id = sid}

\* C15: for an existing session and a store that answers, the load returns
\* the limit most recent messages of the session (all of them when there are
\* fewer), oldest first, whatever the insertion order: as many messages as
\* that, each the content of a row of the session, in non-decreasing
\* created_at, and no row left out is more recent than a row returned.
C15_MostRecentOldestFirst ==
    (hist_out.called /\ hist_out.db = "Session"
     /\ hist_out.session_id \in chat_sessions) =>
        LET mine == RowsOf(chat_messages, hist_out.session_id)
            k    == Min(hist_out.limit, Cardinality(mine))
        IN /\ Len(hist_out.messages) = k
           /\ \E f \in [1..k -> mine] :
                 /\ \A i, j \in 1..k : i < j =>
                        /\ f[i] # f[j]
                        /\ chat_messages[f[i]].created_at <= chat_messages[f[j]].created_at
                 /\ \A i \in 1..k :
                        /\ hist_out.messages[i].content = chat_messages[f[i]].content
                        /\ \A m \in mine \ {f[j] : j \in 1..k} :
                               chat_messages[m].created_at <= chat_messages[f[i]].created_at

-----------------------------------------------------------------------------
(* send_webhook_response on its own: calls and the POSTs each makes *)

\* what a POST of a call can meet: the outcomes above and an exception of
\* another class (the last except clause)
SendOutcomes == PostOutcomes \cup {[kind |-> "error", status |-> 0]}

\* await send_webhook_response(callback_url, data): data is the payload of
\* one of the two calls of process_webhook_request
CallSendWebhookResponse ==
    /\ send.result # "pending"
    /\ \E data \in {"completed", "failed"} :
          send' = [data |-> data, posts |-> <<>>, result |-> "pending"]
    /\ UNCHANGED <<graphVars, routeVars, apiVars, adminVars, parseVars, histVars, trackVars>>

\* one attempt of the call: a POST and what tenacity does with its outcome
WebhookPost ==
    /\ send.result = "pending"
    /\ \E post \in SendOutcomes :
          LET outcome == send_webhook_response(Len(send.posts) + 1, post)
          IN send' = [send EXCEPT !.posts = Append(@, post),
                                  !.result = IF outcome = "retry" THEN "pending"
                                             ELSE outcome]
    /\ UNCHANGED <<graphVars, routeVars, apiVars, adminVars, parseVars, histVars, trackVars>>

NextSend ==
    \/ CallSendWebhookResponse
    \/ WebhookPost

SpecSend == InitHandlers /\ [][NextSend]_vars

\* the POST failed with a transport error, a timeout or another exception
Failed(post) == post.kind # "response"

-----------------------------------------------------------------------------
(* app/utils/tracking.py: RequestTracker *)

\* add_request(track_id, status): the entry is stored under the lock
add_request(requests, track_id, status, timestamp) ==
    [requests EXCEPT ![track_id] =
         WebhookStatusResponse(track_id, status, timestamp, NoneVal, NoneVal)]

\* cutoff = datetime.utcnow() - datetime.timedelta(hours=max_age_hours):
\* the module imports the class (from datetime import datetime), which has no
\* attribute timedelta, so the expression raises AttributeError
Cutoff(timestamp, max_age_hours) ==
    [raised |-> TRUE,
     error  |-> "type object 'datetime.datetime' has no attribute 'timedelta'",
     value  |-> 0]

\* cleanup_old_requests(max_age_hours) at time `timestamp`: the map it
\* leaves and the number it returns
cleanup_old_requests(requests, max_age_hours, timestamp) ==
    LET cutoff    == Cutoff(timestamp, max_age_hours)
        to_remove == {t \in TrackIds :
                         requests[t] # NoEntry /\ requests[t].timestamp < cutoff.value}
    IN IF cutoff.raised
       THEN [raised |-> TRUE, requests |-> requests, returned |-> 0]
       ELSE [raised   |-> FALSE,
             requests |-> [t \in TrackIds |->
                              IF t \in to_remove THEN NoEntry ELSE requests[t]],
             returned |-> Cardinality(to_remove)]

\* dict.update and WebhookStatusResponse(**current): a key that is a field
\* of the model replaces the field, any other key is ignored by the model
DictUpdate(entry, kwargs) ==
    [f \in DOMAIN entry |->
        IF \E p \in kwargs : p[1] = f
        THEN (CHOOSE p \in kwargs : p[1] = f)[2]
        ELSE entry[f]]

\* the entry update_request stores: current = entry.dict();
\* current.update(kwargs); current["timestamp"] = datetime.utcnow()
UpdatedEntry(entry, kwargs, timestamp) ==
    [DictUpdate(entry, kwargs) EXCEPT !.timestamp = timestamp]

\* an update that takes the timestamp from kwargs and leaves it alone
\* otherwise
update_request_KeepTimestamp(requests, track_id, kwargs, timestamp) ==
    IF requests[track_id] = NoEntry
    THEN [raised |-> FALSE, requests |-> requests]
    ELSE [raised   |-> FALSE,
          requests |-> [requests EXCEPT ![track_id] = DictUpdate(@, kwargs)]]

\* update_request(track_id, **kwargs) at time `timestamp`: the map it leaves
update_request(requests, track_id, kwargs, timestamp) ==
    IF requests[track_id] = NoEntry
    THEN \* logger.warning(...); return
         [raised |-> FALSE, requests |-> requests]
    ELSE [raised   |-> FALSE,
          requests |-> [requests EXCEPT
                           ![track_id] = UpdatedEntry(@, kwargs, timestamp)]]

\* get_request(track_id): self._requests.get(str(track_id)), NoEntry being None
get_request(requests, track_id) == requests[track_id]

\* the keyword arguments callers pass to update_request: fields of the
\* entry, among them the timestamp, and a key the model does not have
UpdateKwargs ==
    { {},
      {<<"status", "completed">>, <<"response", "hello">>},
      {<<"status", "failed">>, <<"error", "boom">>},
      {<<"response", "hello">>},
      {<<"error", "boom">>},
      {<<"status", "completed">>, <<"timestamp", 0>>},
      {<<"note", "n">>} }

\* await request_tracker.add_request(track_id, status)
AddRequest ==
    /\ \E track_id \in TrackIds, status \in {"processing", "completed"} :
          tracker' = add_request(tracker, track_id, status, now)
    /\ tracker_out' = NoCleanup
    /\ tracker_call' = NoTrackerCall
    /\ UNCHANGED <<graphVars, routeVars, apiVars, adminVars, parseVars, histVars, send,
                   tracker_lock, coroutines>>

\* await request_tracker.update_request(track_id, **kwargs)
UpdateRequest ==
    /\ \E track_id \in TrackIds, kwargs \in UpdateKwargs :
          LET r == update_request(tracker, track_id, kwargs, now)
          IN /\ tracker' = r.requests
             /\ tracker_call' = [op |-> "update", track_id |-> track_id,
                                 kwargs |-> kwargs, at |-> now,
                                 raised |-> r.raised, returned |-> NoEntry]
    /\ tracker_out' = NoCleanup
    /\ UNCHANGED <<graphVars, routeVars, apiVars, adminVars, parseVars, histVars, send,
                   tracker_lock, coroutines>>

\* await request_tracker.get_request(track_id)
GetRequest ==
    /\ \E track_id \in TrackIds :
          tracker_call' = [op |-> "get", track_id |-> track_id, kwargs |-> {},
                           at |-> now, raised |-> FALSE,
                           returned |-> get_request(tracker, track_id)]
    /\ tracker_out' = NoCleanup
    /\ UNCHANGED <<graphVars, routeVars, apiVars, adminVars, parseVars, histVars, send,
                   tracker, tracker_lock, coroutines>>

\* await request_tracker.cleanup_old_requests(max_age_hours)
CleanupOldRequests ==
    /\ \E max_age_hours \in {0, 1, 24} :
          LET r == cleanup_old_requests(tracker, max_age_hours, now)
          IN /\ tracker' = r.requests
             /\ tracker_out' = [called |-> TRUE, max_age_hours |-> max_age_hours,
                                at |-> now, raised |-> r.raised,
                                returned |-> r.returned, before |-> tracker]
    /\ tracker_call' = NoTrackerCall
    /\ UNCHANGED <<graphVars, routeVars, apiVars, adminVars, parseVars, histVars, send,
                   tracker_lock, coroutines>>

\* datetime.utcnow() advances, in hours
TrackerTick ==
    /\ now < MaxClock
    /\ now' = now + 1
    /\ tracker_out' = NoCleanup
    /\ tracker_call' = NoTrackerCall
    /\ UNCHANGED <<graphVars, apiVars, adminVars, parseVars, histVars, send, tracker,
                   tracker_lock, coroutines,
                   webhook_requests, tasks, acked, query, chats>>

NextTracker ==
    \/ AddRequest
    \/ UpdateRequest
    \/ GetRequest
    \/ CleanupOldRequests
    \/ TrackerTick

SpecTracker == InitHandlers /\ [][NextTracker]_vars

\* C20: cleanup_old_requests(max_age_hours) removes the entries whose
\* timestamp is older than the current time minus max_age_hours and no other,
\* and returns the number removed; with max_age_hours = 0 an entry registered
\* earlier is removed.
C20_CleanupRemovesOld ==
    tracker_out.called =>
        LET old == {t \in TrackIds :
                       /\ tracker_out.before[t] # NoEntry
                       /\ tracker_out.before[t].timestamp
                              < tracker_out.at - tracker_out.max_age_hours}
        IN /\ ~tracker_out.raised
           /\ \A t \in TrackIds :
                  tracker[t] = IF t \in old THEN NoEntry ELSE tracker_out.before[t]
           /\ tracker_out.returned = Cardinality(old)

\* C21: update_request(track_id, fields) changes only the named fields and the
\* timestamp of the entry of track_id and leaves that entry's other fields
\* and every other entry as they were; with an unknown track_id it leaves
\* the map as it was and does not raise.
C21_UpdateFrame ==
    [][tracker_call'.op = "update" =>
          LET t     == tracker_call'.track_id
              named == {p[1] : p \in tracker_call'.kwargs} \cup {"timestamp"}
          IN /\ \A u \in TrackIds \ {t} : tracker'[u] = tracker[u]
             /\ \A f \in DOMAIN tracker[t] \ named : tracker'[t][f] = tracker[t][f]
             /\ tracker[t] = NoEntry =>
                    tracker' = tracker /\ ~tracker_call'.raised
             /\ tracker[t] # NoEntry =>
                    /\ tracker'[t].timestamp = tracker_call'.at
                    /\ \A p \in tracker_call'.kwargs :
                           p[1] \in DOMAIN tracker[t] \ {"timestamp"} =>
                               tracker'[t][p[1]] = p[2]]_vars

\* an update of a registered entry, made later than its registration, has
\* set status and response and refreshed the timestamp, the other entry
\* being registered too
C21_Witness ==
    /\ tracker_call.op = "update"
    /\ tracker_call.track_id = "t1"
    /\ tracker_call.kwargs = {<<"status", "completed">>, <<"response", "hello">>}
    /\ tracker["t1"] = WebhookStatusResponse("t1", "completed", 1, "hello", NoneVal)
    /\ tracker["t2"] # NoEntry /\ tracker["t2"].timestamp = 0

-----------------------------------------------------------------------------
(* app/utils/tracking.py: concurrent calls of the RequestTracker.  Every    *)
(* statement of a call is a step of its coroutine, which lets the            *)
(* coroutines interleave wherever the event loop can switch and at every     *)
(* other statement as well.                                                  *)

\* maps the tracker can hold when the concurrent calls start
RegisteredMaps ==
    { [t \in TrackIds |-> NoEntry],
      add_request([t \in TrackIds |-> NoEntry], "t1", "processing", 0),
      add_request(add_request([t \in TrackIds |-> NoEntry], "t1", "processing", 0),
                  "t2", "processing", 0) }

InitLock ==
    /\ IdleGraph /\ InitRoutes /\ InitApi /\ IdleParse /\ IdleHistory /\ IdleSend /\ IdleAdmin
    /\ tracker \in RegisteredMaps
    /\ tracker_out = NoCleanup
    /\ tracker_call = NoTrackerCall
    /\ tracker_lock = NoneVal
    /\ coroutines = [c \in Coroutines |-> NoCoroutine]

\* the calls the coroutines make
TrackerCalls ==
    { [op |-> "add", track_id |-> t, kwargs |-> {<<"status", "processing">>}] :
          t \in TrackIds }
    \cup { [op |-> "update", track_id |-> t, kwargs |-> k] :
               t \in TrackIds,
               k \in { {<<"status", "completed">>, <<"response", "hello">>},
                       {<<"response", "hello">>},
                       {<<"error", "boom">>} } }
    \cup { [op |-> "get", track_id |-> t, kwargs |-> {}] : t \in TrackIds }
    \cup { [op |-> "cleanup", track_id |-> NoneVal,
            kwargs |-> {<<"max_age_hours", 0>>}] }

\* an acquire that does not wait for the holder
LockFree_Unguarded(lock) == TRUE

\* asyncio.Lock.acquire returns once the lock is not held
LockFree(lock) == lock = NoneVal

\* a coroutine calls a method of request_tracker
CallTracker(c) ==
    /\ coroutines[c].pc = "idle"
    /\ \E call \in TrackerCalls :
          coroutines' = [coroutines EXCEPT
              ![c].op = call.op, ![c].track_id = call.track_id,
              ![c].kwargs = call.kwargs,
              ![c].pc = IF call.op = "cleanup" THEN "cutoff" ELSE "acquire"]
    /\ UNCHANGED <<graphVars, routeVars, apiVars, adminVars, parseVars, histVars, send,
                   tracker, tracker_out, tracker_call, tracker_lock>>

\* cleanup_old_requests computes the cutoff before it takes the lock; the
\* expression raises, so the statements under its lock are never reached
CleanupCutoff(c) ==
    /\ coroutines[c].pc = "cutoff"
    /\ LET cutoff == Cutoff(now, 0)
       IN coroutines' = [coroutines EXCEPT
              ![c].raised = cutoff.raised,
              ![c].at = now,
              ![c].pc = IF cutoff.raised THEN "done" ELSE "acquire"]
    /\ UNCHANGED <<graphVars, routeVars, apiVars, adminVars, parseVars, histVars, send,
                   tracker, tracker_out, tracker_call, tracker_lock>>

\* async with self._lock: __aenter__
Acquire(c) ==
    /\ coroutines[c].pc = "acquire"
    /\ LockFree(tracker_lock)
    /\ tracker_lock' = c
    /\ coroutines' = [coroutines EXCEPT ![c].pc = "locked", ![c].seen = tracker]
    /\ UNCHANGED <<graphVars, routeVars, apiVars, adminVars, parseVars, histVars, send,
                   tracker, tracker_out, tracker_call>>

\* add_request: self._requests[str(track_id)] = WebhookStatusResponse(...)
AddStore(c) ==
    /\ coroutines[c].pc = "locked" /\ coroutines[c].op = "add"
    /\ tracker' = add_request(tracker, coroutines[c].track_id, "processing", now)
    /\ coroutines' = [coroutines EXCEPT ![c].pc = "release", ![c].at = now]
    /\ UNCHANGED <<graphVars, routeVars, apiVars, adminVars, parseVars, histVars, send,
                   tracker_out, tracker_call, tracker_lock>>

\* update_request: the membership test, and current built from the entry
\* read, the keyword arguments and utcnow(); current is kept in `returned`
UpdateRead(c) ==
    /\ coroutines[c].pc = "locked" /\ coroutines[c].op = "update"
    /\ LET entry == tracker[coroutines[c].track_id]
       IN coroutines' = [coroutines EXCEPT
              ![c].pc = IF entry = NoEntry THEN "release" ELSE "store",
              ![c].at = now,
              ![c].returned = IF entry = NoEntry THEN NoEntry
                              ELSE UpdatedEntry(entry, coroutines[c].kwargs, now)]
    /\ UNCHANGED <<graphVars, routeVars, apiVars, adminVars, parseVars, histVars, send,
                   tracker, tracker_out, tracker_call, tracker_lock>>

\* update_request: self._requests[track_id_str] = WebhookStatusResponse(**current)
UpdateStore(c) ==
    /\ coroutines[c].pc = "store"
    /\ tracker' = [tracker EXCEPT ![coroutines[c].track_id] = coroutines[c].returned]
    /\ coroutines' = [coroutines EXCEPT ![c].pc = "release"]
    /\ UNCHANGED <<graphVars, routeVars, apiVars, adminVars, parseVars, histVars, send,
                   tracker_out, tracker_call, tracker_lock>>

\* get_request: return self._requests.get(str(track_id))
GetRead(c) ==
    /\ coroutines[c].pc = "locked" /\ coroutines[c].op = "get"
    /\ coroutines' = [coroutines EXCEPT
           ![c].pc = "release", ![c].at = now,
           ![c].returned = get_request(tracker, coroutines[c].track_id)]
    /\ UNCHANGED <<graphVars, routeVars, apiVars, adminVars, parseVars, histVars, send,
                   tracker, tracker_out, tracker_call, tracker_lock>>

\* async with self._lock: __aexit__
Release(c) ==
    /\ coroutines[c].pc = "release"
    /\ tracker_lock' = NoneVal
    /\ coroutines' = [coroutines EXCEPT ![c].pc = "done"]
    /\ UNCHANGED <<graphVars, routeVars, apiVars, adminVars, parseVars, histVars, send,
                   tracker, tracker_out, tracker_call>>

NextLock ==
    \/ \E c \in Coroutines : CallTracker(c)
    \/ \E c \in Coroutines : CleanupCutoff(c)
    \/ \E c \in Coroutines : Acquire(c)
    \/ \E c \in Coroutines : AddStore(c)
    \/ \E c \in Coroutines : UpdateRead(c)
    \/ \E c \in Coroutines : UpdateStore(c)
    \/ \E c \in Coroutines : GetRead(c)
    \/ \E c \in Coroutines : Release(c)
    \/ TrackerTick

SpecLock == InitLock /\ [][NextLock]_vars

\* the statements between __aenter__ and __aexit__
InLock(co) == co.pc \in {"locked", "store", "release"}

\* the coroutine has been through __aenter__
Entered(co) == InLock(co) \/ (co.pc = "done" /\ co.op # "cleanup")

\* the map a call leaves when it runs alone on map m
Alone(co, m) ==
    CASE co.op = "add"    -> add_request(m, co.track_id, "processing", co.at)
      [] co.op = "update" -> update_request(m, co.track_id, co.kwargs, co.at).requests
      [] OTHER            -> m

\* the fields a call names
Named(co) == {p[1] : p \in co.kwargs}

\* C22: every access of the tracker's methods to the map is made by the
\* holder of the one lock, so concurrent calls behave as if run one at a
\* time: a call leaves the map it would leave running alone on the map it
\* found, two concurrent updates of one entry that set different fields
\* both take effect, and get_request returns an entry as one whole call
\* left it.
C22_LockSerializes ==
    /\ [](\A c \in Coroutines :
            /\ InLock(coroutines[c]) => tracker_lock = c
            /\ coroutines[c].pc \in {"release", "done"} /\ Entered(coroutines[c]) =>
                   \/ tracker = Alone(coroutines[c], coroutines[c].seen)
                   \/ \E d \in Coroutines \ {c} :
                         /\ Entered(coroutines[d])
                         /\ coroutines[d].seen = Alone(coroutines[c], coroutines[c].seen)
            /\ coroutines[c].op = "get" /\ coroutines[c].pc \in {"release", "done"} =>
                   /\ coroutines[c].returned
                          = coroutines[c].seen[coroutines[c].track_id]
                   /\ \A d \in Coroutines \ {c} :
                         Entered(coroutines[d]) =>
                             coroutines[c].seen \in
                                 {coroutines[d].seen,
                                  Alone(coroutines[d], coroutines[d].seen)})
    /\ [](\A c, d \in Coroutines :
            /\ c # d
            /\ coroutines[c].pc = "done" /\ coroutines[d].pc = "done"
            /\ coroutines[c].op = "update" /\ coroutines[d].op = "update"
            /\ coroutines[c].track_id = coroutines[d].track_id
            /\ coroutines[c].seen[coroutines[c].track_id] # NoEntry
            /\ Named(coroutines[c]) \cap Named(coroutines[d]) = {}
            => \A p \in coroutines[c].kwargs \cup coroutines[d].kwargs :
                   tracker[coroutines[c].track_id][p[1]] = p[2])
    /\ [][tracker' # tracker =>
             /\ tracker_lock # NoneVal
             /\ tracker_lock' = tracker_lock
             /\ coroutines[tracker_lock].pc \in {"locked", "store"}
             /\ coroutines'[tracker_lock].pc = "release"]_vars

\* two coroutines have updated the entry of t1, c2 entering the lock after
\* c1 left it, and both updates have taken effect: c1 set the response, c2
\* the error, and the status is the registered one
C22_Witness ==
    /\ coroutines["c1"].pc = "done" /\ coroutines["c2"].pc = "done"
    /\ coroutines["c1"].op = "update" /\ coroutines["c2"].op = "update"
    /\ coroutines["c1"].track_id = "t1" /\ coroutines["c2"].track_id = "t1"
    /\ coroutines["c1"].kwargs = {<<"response", "hello">>}
    /\ coroutines["c2"].kwargs = {<<"error", "boom">>}
    /\ coroutines["c2"].seen = Alone(coroutines["c1"], coroutines["c1"].seen)
    /\ tracker["t1"].response = "hello" /\ tracker["t1"].error = "boom"
    /\ tracker["t1"].status = "processing"

-----------------------------------------------------------------------------
(* Further properties of one run (SpecGraph) *)

\* the number of assistant messages of a list
AiCount(messages) == Cardinality({i \in 1..Len(messages) : messages[i].type = "ai"})

\* C23: generate_response on a state whose messages list is empty returns
\* without raising, and the state it returns holds at least one assistant
\* message.
C23_EmptyMessagesAnswered ==
    [][pc = "generate" /\ Get(state, "messages", <<>>) = <<>> =>
          /\ pc' # "RAISED"
          /\ AiCount(Get(state', "messages", <<>>)) >= 1]_vars

\* C24: in every state of a run, should_call_api true implies that
\* api_request is non-empty and is the response text generate produced in
\* this run.
C24_RequestIsGenerated ==
    Get(state, "should_call_api", FALSE) =>
        /\ "api_request" \in state.keys
        /\ TruthyStr(state.api_request)
        /\ state.api_request = generated

\* the API call has been made and has extended the response: api_request is
\* still the generated text, which carries the directive
C24_Witness ==
    /\ Executed("make_api_call")
    /\ Get(state, "should_call_api", FALSE)
    /\ state.api_request = generated
    /\ should_make_api_call(generated)
    /\ state.response # generated

\* C26: across every node transition of a run the number of messages never
\* decreases: load_history adds at most one message, a leading system
\* message, generate appends at most one, an assistant message, and every
\* other node keeps the count.
C26_MessagesNeverShrink ==
    [][LET before == Get(state, "messages", <<>>)
           after  == Get(state', "messages", <<>>)
       IN /\ Len(after) >= Len(before)
          /\ pc = "load_history" =>
                 \/ Len(after) = Len(before)
                 \/ /\ Len(after) = Len(before) + 1
                    /\ after[1].type = "system"
                    /\ Tail(after) = before
          /\ pc = "generate" =>
                 \/ Len(after) = Len(before)
                 \/ /\ after = Append(before, after[Len(after)])
                    /\ after[Len(after)].type = "ai"
          /\ pc \notin {"load_history", "generate"} => Len(after) = Len(before)]_vars

\* the enhanced run is over, every node but make_api_call has executed, and
\* the one message the run started with has become two: generate appended
\* the assistant message
C26_Witness ==
    /\ pc = END
    /\ trace = EnhancedNoApi
    /\ Len(initial.messages) = 1
    /\ Len(state.messages) = 2
    /\ state.messages[1] = initial.messages[1]
    /\ state.messages[2].type = "ai"

\* C27: preprocess keeps the number and the order of the messages and
\* every message whose content has at most 4000 characters; a longer
\* content becomes its first 4000 characters followed by the truncation
\* marker; no other field of the state changes.
C27_PreprocessFrame ==
    [][pc = "preprocess" =>
          LET before == Get(state, "messages", <<>>)
              after  == Get(state', "messages", <<>>)
          IN /\ pc' # "RAISED"
             /\ Len(after) = Len(before)
             /\ \A i \in 1..Len(before) :
                    IF Len(before[i].content) <= 4000
                    THEN after[i] = before[i]
                    ELSE /\ after[i].type = before[i].type
                         /\ after[i].content =
                                SubSeq(before[i].content, 1, 4000) \o "... [truncated]"
             /\ state' = [state EXCEPT !.messages = after]]_vars

\* preprocess has just run on a message of 4001 characters followed by a
\* short one: the first is cut to 4000 characters and the marker, the second
\* is as it was
C27_Witness ==
    /\ trace # <<>> /\ Last(trace) = "preprocess"
    /\ Len(initial.messages) = 2
    /\ Len(initial.messages[1].content) = 4001
    /\ Len(state.messages) = 2
    /\ Len(state.messages[1].content) = 4015
    /\ state.messages[2] = HumanMessage("Hello")

\* generate failed fatally in this run: it called the LLM, and the backend
\* raised on every attempt the retry wrapper made
GenerateFailed ==
    /\ Executed("generate")
    /\ Get(initial, "messages", <<>>) # <<>>
    /\ llm_used.fails >= STOP_AFTER_ATTEMPT

\* C28: if generate fails fatally in a run of the enhanced workflow,
\* save_history never executes in that run, and the stored history stays
\* exactly what it was before the run: neither the human message of the
\* failed turn nor an assistant record is added.
C28_FailedTurnNotSaved ==
    \A h \in StoredHistories :
        chat_messages = h =>
            [](variant = "enhanced" /\ GenerateFailed =>
                   /\ pc = "RAISED"
                   /\ ~Executed("save_history")
                   /\ chat_messages = h)

\* generate has failed after its three attempts in an enhanced run of
\* session s1, whose earlier turn is in the store
C28_Witness ==
    /\ variant = "enhanced"
    /\ pc = "RAISED" /\ Last(trace) = "generate"
    /\ llm_calls = 3
    /\ Get(initial, "session_id", NoneVal) = "s1"
    /\ initial.messages = <<HumanMessage("Hello")>>
    /\ Len(chat_messages) = 2

-----------------------------------------------------------------------------
(* Further properties of the webhook handlers (SpecWebhook) *)

\* C29: in every reachable state of the webhook tracking map each entry has
\* status processing, completed or failed; a completed entry has a response
\* and no error, a failed entry an error and no response, a processing entry
\* neither.
C29_EntryShape ==
    \A t \in TrackIds :
        LET e == webhook_requests[t]
        IN e # NoEntry =>
              /\ e.status \in {"processing", "completed", "failed"}
              /\ e.status = "completed" => e.response # NoneVal /\ e.error = NoneVal
              /\ e.status = "failed" => e.error # NoneVal /\ e.response = NoneVal
              /\ e.status = "processing" => e.response = NoneVal /\ e.error = NoneVal

\* the map holds a completed entry with its response and an entry that
\* failed after it had completed: the callback could not be delivered, and
\* the entry carries the error and no response
C29_Witness ==
    /\ webhook_requests["t1"].status = "completed"
    /\ webhook_requests["t1"].response = "Hi"
    /\ webhook_requests["t2"].status = "failed"
    /\ webhook_requests["t2"].error = "RetryError"
    /\ webhook_requests["t2"].response = NoneVal

-----------------------------------------------------------------------------
(* app/graph/nodes.py: save_to_history of concurrent runs.  The node        *)
(* reaches no await before next(get_db()) raises, so each call is one step. *)

\* the turn of run r: its human message and the response generated for it
HumanOf(r)     == "human-" \o SubSeq(r, 2, 2)
AssistantOf(r) == "assistant-" \o SubSeq(r, 2, 2)

\* the states a run can hold when it reaches save_history: with or without
\* a session id, a human message and a response
SaveStates(r) ==
    { LET base == GraphState({"messages", "metadata", "session_id"},
                      IF hasHuman
                      THEN <<HumanMessage(HumanOf(r)), AIMessage(AssistantOf(r))>>
                      ELSE <<AIMessage(AssistantOf(r))>>,
                      meta, sid)
      IN IF hasResponse THEN Set(base, "response", AssistantOf(r)) ELSE base :
      hasHuman \in BOOLEAN, hasResponse \in BOOLEAN,
      sid \in {NoneVal, "s1", "s2"},
      meta \in { {}, {<<"request_id", "r1">>}, {<<"postprocessed", "True">>} } }

InitSave ==
    /\ IdleGraph /\ InitRoutes /\ InitApi /\ IdleParse /\ IdleSend /\ IdleTracker /\ IdleAdmin
    /\ chat_sessions = {}
    /\ chat_messages = <<>>
    /\ hist_out = NoLoad
    /\ hist_node = NoNodeCall
    /\ save_runs \in [SaveRuns -> {NoSaveRun}]

\* a run reaches save_history
ReachSave(r) ==
    /\ save_runs[r].pc = "idle"
    /\ \E st \in SaveStates(r) :
          save_runs' = [save_runs EXCEPT ![r] = [pc |-> "save", st |-> st]]
    /\ UNCHANGED <<graphVars, routeVars, apiVars, adminVars, parseVars, chat_sessions,
                   chat_messages, hist_out, hist_node, send, trackVars>>

\* save_to_history(state) of run r
SaveToHistory(r) ==
    /\ save_runs[r].pc = "save"
    /\ LET writes == HistoryWrites(save_runs[r].st, NextGetDb)
           result == save_to_history(save_runs[r].st, NextGetDb)
       IN /\ chat_messages' = chat_messages \o
                 [i \in 1..Len(writes) |->
                     ChatMessage(writes[i].session_id, writes[i].message_type,
                                 writes[i].content, now)]
          /\ chat_sessions' = chat_sessions \cup
                 {writes[i].session_id : i \in 1..Len(writes)}
          /\ save_runs' = [save_runs EXCEPT
                 ![r] = [pc |-> IF result.raised THEN "raised" ELSE "done",
                         st |-> result.st]]
    /\ UNCHANGED <<graphVars, routeVars, apiVars, adminVars, parseVars, hist_out, hist_node,
                   send, trackVars>>

NextSave ==
    \/ \E r \in SaveRuns : ReachSave(r)
    \/ \E r \in SaveRuns : SaveToHistory(r)

SpecSave == InitSave /\ [][NextSave]_vars

\* the positions of the rows of the store with the given session, type and
\* content
RowsWith(sid, type, content) ==
    {i \in 1..Len(chat_messages) :
        chat_messages[i] = ChatMessage(sid, type, content, chat_messages[i].created_at)}

\* run r holds a session id, a human message and a response
FullTurn(r) ==
    /\ TruthyStr(Get(save_runs[r].st, "session_id", NoneVal))
    /\ TruthyStr(Get(save_runs[r].st, "response", NoneVal))
    /\ \E i \in 1..Len(save_runs[r].st.messages) :
          save_runs[r].st.messages[i].type = "human"

-----------------------------------------------------------------------------
(* app/admin/routes.py: remove_user_admin over table users.  Every await   *)
(* of the handler is a step; each request has its own AsyncSession, whose   *)
(* SELECTs read what is committed when they run and whose UPDATE is visible *)
(* to the others at commit.                                                 *)

\* the tables a deployment can hold: at least one admin
UserTables ==
    { t \in [UserIds -> {"admin", "user", "none"}] : \E u \in UserIds : t[u] = "admin" }

InitAdmin ==
    /\ IdleGraph /\ InitRoutes /\ InitApi /\ IdleParse /\ IdleHistory /\ IdleSend
    /\ IdleTracker
    /\ users \in UserTables
    /\ admin_requests = [a \in AdminRequests |-> NoAdminRequest]

\* select(func.count(User.id)).where(User.is_admin == True)
AdminCount(table) == Cardinality({u \in UserIds : table[u] = "admin"})

\* the "last admin" test of remove_user_admin
IsLastAdmin(admin_count) == admin_count <= 1

\* Depends(get_current_admin_user): the caller is a user of the table; 403
\* unless is_admin
AdminAuthorize(a) ==
    /\ admin_requests[a].pc = "idle"
    /\ \E current_user \in UserIds, user_id \in UserIds :
          /\ users[current_user] # "none"
          /\ admin_requests' = [admin_requests EXCEPT
                 ![a].current_user = current_user,
                 ![a].user_id = user_id,
                 ![a].pc = IF users[current_user] = "admin" THEN "get_user" ELSE "done",
                 ![a].status_code = IF users[current_user] = "admin" THEN 0 ELSE 403]
    /\ UNCHANGED <<graphVars, routeVars, apiVars, parseVars, histVars, send,
                   trackVars, users>>

\* user = await get_user_by_id(db, user_id), and the two tests on it
AdminGetUser(a) ==
    /\ admin_requests[a].pc = "get_user"
    /\ LET user == users[admin_requests[a].user_id]
       IN admin_requests' = [admin_requests EXCEPT
              ![a].user = user,
              ![a].pc = IF user = "admin" THEN "count" ELSE "done",
              ![a].status_code = CASE user = "none" -> 404
                                   [] user = "user" -> 400
                                   [] OTHER         -> 0]
    /\ UNCHANGED <<graphVars, routeVars, apiVars, parseVars, histVars, send,
                   trackVars, users>>

\* result = await db.execute(admin_count_query), and the test on the count
AdminCountAdmins(a) ==
    /\ admin_requests[a].pc = "count"
    /\ LET admin_count == AdminCount(users)
       IN admin_requests' = [admin_requests EXCEPT
              ![a].admin_count = admin_count,
              ![a].pc = IF IsLastAdmin(admin_count) THEN "done" ELSE "update",
              ![a].status_code = IF IsLastAdmin(admin_count) THEN 400 ELSE 0]
    /\ UNCHANGED <<graphVars, routeVars, apiVars, parseVars, histVars, send,
                   trackVars, users>>

\* update_user(db, user_id, UserUpdate(is_admin=False)): the row is read
\* again, updated and committed; the handler answers 200 also when
\* update_user returns None
AdminUpdateUser(a) ==
    /\ admin_requests[a].pc = "update"
    /\ users' = IF users[admin_requests[a].user_id] = "none" THEN users
                ELSE [users EXCEPT ![admin_requests[a].user_id] = "user"]
    /\ admin_requests' = [admin_requests EXCEPT ![a].pc = "done", ![a].status_code = 200]
    /\ UNCHANGED <<graphVars, routeVars, apiVars, parseVars, histVars, send, trackVars>>

NextAdmin ==
    \/ \E a \in AdminRequests : AdminAuthorize(a)
    \/ \E a \in AdminRequests : AdminGetUser(a)
    \/ \E a \in AdminRequests : AdminCountAdmins(a)
    \/ \E a \in AdminRequests : AdminUpdateUser(a)

SpecAdmin == InitAdmin /\ [][NextAdmin]_vars

\* C30: remove_user_admin never reduces the number of admin users to zero:
\* from a table with at least one admin, after any interleaving of
\* remove-admin requests, two concurrent requests on two different admins
\* included, at least one user has is_admin true.
C30_AdminRemains == AdminCount(users) >= 1

====
